---- MODULE Spec2Model ----
(***************************************************************************)
(* CipherLink backend: the proof-of-work ledger (blockchain/engine.py),    *)
(* the KDC session registry (kdc/service.py, key_lifecycle/routes.py),     *)
(* the ephemeral ECDH handshake service (pfs/ecdh_service.py), the audit   *)
(* log (key_lifecycle/manager.py) and the rate limiter                     *)
(* (utils/rate_limit.py), as one state machine.                            *)
(*                                                                         *)
(* Values that Python keeps as "str | None" are records with a kind field  *)
(* so that any two of them can be compared: None, a plain string, or a     *)
(* SHA-256 hex digest.  A digest is modelled as an ideal hash: it carries  *)
(* its preimage (no two different inputs share a digest) and a numeric     *)
(* code from which the count of leading '0' characters is computed.        *)
(***************************************************************************)
EXTENDS Integers, Sequences, FiniteSets, TLC

\* ------------------------------------------------------------ bounds
MaxBlocks == 3
MaxLedgerTime == 1
MaxCorruptions == 3
HashSpace == 16
HexLen == 6
LocalUtcOffset == 1

MaxSessions == 2
MaxEvents == 3
MaxKdcTime == 61
MaxKdcCalls == 2
MaxClock == 3
MaxIssueCalls == 6

MaxPfsSessions == 2
MaxPfsTime == 121
MaxPfsCalls == 2

MaxRateCalls == 7
MaxRateTime == 61
MaxSids == 3

\* ------------------------------------------------- program constants
pow_difficulty == 4
max_requests == 5
per_seconds == 60
session_minutes == 30
ttl_seconds == 120
active_minutes == 10

\* ------------------------------------------------------------- inputs
Users == {"u1", "u2", "u3"}
\* every user row; a receiverId outside it is an unknown user
KnownUsers == Users
Messages == {"h0", "h1", "h2"}
SeqMessages == {"h0", "h1"}
Miners == {"m1", "m2"}
Requests == {"r1", "r2"}

None == [kind |-> "None"]
Str(s) == [kind |-> "str", v |-> s]

VARIABLES
  now,        \* the wall clock, in seconds
  blocks,     \* the blocks table, in insertion order
  miner,      \* per request thread: position in add_block / _persist_message
  reply,      \* the last add_block response
  copy,       \* a tampered copy of the chain and validate_chain's verdict on it
  contact_links,  \* the contact_links table
  kdc_sessions,   \* the kdc_sessions table, in insertion order (the id is the index)
  key_events,     \* the key_events table, in insertion order
  kdc_buckets,    \* kdc.service._rate_limiter._buckets
  next_key,       \* how many random keys have been drawn
  kdc_reply,      \* the last response of a KDC or lifecycle route
  pfs_sessions,   \* the pfs_sessions table, in insertion order (the id is the index)
  pending,        \* EphemeralECDHService._pending: session id -> (private key, expiry)
  pfs_buckets,    \* pfs.ecdh_service._rate_limiter._buckets
  completer,      \* per /pfs/complete request: its position, inputs and response
  pfs_reply,      \* the last response of /pfs/start
  rate_log,       \* every call of a limiter's check so far: key, time, outcome
  events_reply,   \* the last response of /lifecycle/key-events
  contact_reply,  \* the last response of POST /contacts
  online_users,   \* SocketManager.online_users: user id -> sid
  sid_to_user,    \* SocketManager.sid_to_user: sid -> user id
  removed         \* the rows delete_account has deleted: users, and the ids of sessions

kdcVars == <<contact_links, kdc_sessions, key_events, kdc_buckets, next_key, kdc_reply>>
pfsVars == <<pfs_sessions, pending, pfs_buckets, completer, pfs_reply>>
kdcOnlyVars == <<kdc_sessions, kdc_buckets, next_key, kdc_reply>>
auxVars == <<rate_log, events_reply, contact_reply, online_users, sid_to_user, removed>>
nonLedgerVars == <<kdcVars, pfsVars, auxVars>>
vars == <<now, blocks, miner, reply, copy, contact_links, kdc_sessions, key_events,
          kdc_buckets, next_key, kdc_reply, pfs_sessions, pending, pfs_buckets,
          completer, pfs_reply, rate_log, events_reply, contact_reply,
          online_users, sid_to_user, removed>>
ledgerVars == <<blocks, miner, reply, copy>>

\* ------------------------------------------------------------- ledger

\* BlockPayload(sender_id, receiver_id, meta)
BlockPayload(s, r) == [kind |-> "BlockPayload", sender_id |-> s, receiver_id |-> r]

\* the two callers of mine_block: add_block builds the payload from the request
\* body, _persist_message from the sender and the receiver or "broadcast"
Calls == {[caller |-> "add_block", payload |-> BlockPayload("u1", "u2")],
          [caller |-> "persist_message", payload |-> BlockPayload("u2", "broadcast")]}

\* datetime.now(timezone.utc): an aware datetime
AwareNow(t) == [t |-> t, aware |-> TRUE]
\* created_at.replace(tzinfo=None), the value the DateTime column keeps
StripTz(dt) == [t |-> dt.t, aware |-> FALSE]
\* a validate_chain that hashes created_at as the column returns it
AttachUtcForgotten(dt) == dt

\* timestamp.replace(tzinfo=timezone.utc) when tzinfo is None
AttachUtc(dt) == IF dt.aware THEN dt ELSE [t |-> dt.t, aware |-> TRUE]
\* datetime.timestamp(): a naive datetime is read as local time
EpochSeconds(dt) == IF dt.aware THEN dt.t ELSE dt.t - LocalUtcOffset

\* json.dumps(payload.__dict__) if payload else None
DumpPayload(p) ==
  IF p = None THEN None
  ELSE [kind |-> "json", sender_id |-> p.sender_id, receiver_id |-> p.receiver_id]

\* BlockPayload(**json.loads(block.payload)) if block.payload else None
LoadPayload(j) ==
  IF j = None THEN None ELSE BlockPayload(j.sender_id, j.receiver_id)

\* numeric stand-ins for the characters of a header field
StrCode(s) ==
  CASE s = "h0" -> 1 [] s = "h1" -> 2 [] s = "h2" -> 3
    [] s = "u1" -> 4 [] s = "u2" -> 5 [] s = "u3" -> 6
    [] s = "broadcast" -> 7 [] s = "GENESIS" -> 8
    [] OTHER -> 9

HashCode(h) == IF h.kind = "hex" THEN h.code ELSE StrCode(h.v)

\* BlockData.header_string: the fields joined by "|"; a previous_hash that is
\* None or empty is written "GENESIS", an absent payload is written ""
header_string(data) ==
  LET payload_repr == IF data.payload = None THEN <<>>
                      ELSE <<data.payload.sender_id, data.payload.receiver_id>>
      prev == IF data.previous_hash = None \/ data.previous_hash = Str("")
              THEN Str("GENESIS") ELSE data.previous_hash
  IN <<data.height, prev, data.nonce, data.difficulty, data.message_hash,
       payload_repr, EpochSeconds(data.timestamp)>>

PayloadCode(r) == IF r = <<>> THEN 0 ELSE StrCode(r[1]) + 3 * StrCode(r[2])

\* hashlib.sha256(...).hexdigest() as an ideal hash
Sha256Hex(h) ==
  [kind |-> "hex",
   code |-> (3 * h[1] + 5 * HashCode(h[2]) + h[3] + 7 * h[4]
             + 11 * StrCode(h[5]) + 13 * PayloadCode(h[6]) + 17 * h[7]) % HashSpace,
   pre  |-> h]

\* BlockchainEngine._compute_hash
compute_hash(data) == Sha256Hex(header_string(data))

RECURSIVE ZeroRun(_)
ZeroRun(c) == IF c = 0 THEN HexLen
              ELSE IF c % 2 = 1 THEN 0 ELSE 1 + ZeroRun(c \div 2)

\* the number of leading '0' characters of a stored hash string
LeadingZeros(h) ==
  IF h.kind = "hex" THEN ZeroRun(h.code)
  ELSE IF h.kind = "str" /\ h.v = "0000" THEN 4 ELSE 0

\* hash.startswith("0" * difficulty)
StartsWithZeros(h, d) == LeadingZeros(h) >= d

BlockData(height, previous_hash, nonce, difficulty, message_hash, payload, timestamp) ==
  [height |-> height, previous_hash |-> previous_hash, nonce |-> nonce,
   difficulty |-> difficulty, message_hash |-> message_hash,
   payload |-> payload, timestamp |-> timestamp]

\* BlockchainEngine.__init__: difficulty or settings.pow_difficulty
EngineDifficulty == pow_difficulty

\* the first nonce of the search
FirstNonce == 0

\* a search that counts the nonce up once more before it leaves the loop
RECURSIVE SearchNonceOffByOne(_, _, _, _, _, _)
SearchNonceOffByOne(height, previous_hash, message_hash, payload, timestamp, nonce) ==
  IF StartsWithZeros(compute_hash(BlockData(height, previous_hash, nonce,
                        EngineDifficulty, message_hash, payload, timestamp)),
                     EngineDifficulty)
  THEN nonce + 1
  ELSE SearchNonceOffByOne(height, previous_hash, message_hash, payload, timestamp,
                           nonce + 1)

\* the while-loop of mine_block: nonce counts up until the digest has difficulty
\* leading zeros; the timestamp is the one taken before the loop
RECURSIVE SearchNonce(_, _, _, _, _, _)
SearchNonce(height, previous_hash, message_hash, payload, timestamp, nonce) ==
  IF StartsWithZeros(compute_hash(BlockData(height, previous_hash, nonce,
                        EngineDifficulty, message_hash, payload, timestamp)),
                     EngineDifficulty)
  THEN nonce
  ELSE SearchNonce(height, previous_hash, message_hash, payload, timestamp, nonce + 1)

\* _get_last_block: order_by(height desc).first(); among blocks of the same
\* a query that orders by height ascending and so returns the lowest block
LowestBlocks(bs) ==
  {i \in 1..Len(bs) : \A j \in 1..Len(bs) : bs[j].height >= bs[i].height}

\* greatest height the database may return any
LastBlocks(bs) ==
  {i \in 1..Len(bs) : \A j \in 1..Len(bs) : bs[j].height <= bs[i].height}

\* the Block row mine_block builds from what it read (last is 0 for an empty table)
MinedBlock(bs, last, message_hash, payload, t) ==
  LET height == IF last = 0 THEN 0 ELSE bs[last].height + 1
      previous_hash == IF last = 0 THEN None ELSE bs[last].hash
      timestamp == AwareNow(t)
      nonce == SearchNonce(height, previous_hash, message_hash, payload,
                           timestamp, FirstNonce)
  IN [height |-> height, nonce |-> nonce, difficulty |-> EngineDifficulty,
      previous_hash |-> previous_hash,
      hash |-> compute_hash(BlockData(height, previous_hash, nonce,
                 EngineDifficulty, message_hash, payload, timestamp)),
      message_hash |-> message_hash,
      payload |-> DumpPayload(payload),
      created_at |-> StripTz(timestamp)]

\* order_by(Block.height.asc()): rows of equal height stay in insertion order
RECURSIVE OrderByHeight(_)
OrderByHeight(bs) ==
  IF bs = <<>> THEN <<>>
  ELSE LET i == CHOOSE k \in 1..Len(bs) :
                  \A j \in 1..Len(bs) :
                    bs[k].height < bs[j].height \/ (bs[k].height = bs[j].height /\ k <= j)
       IN <<bs[i]>> \o OrderByHeight(SubSeq(bs, 1, i - 1) \o SubSeq(bs, i + 1, Len(bs)))

Issue(kind, height) == [kind |-> kind, height |-> height]

\* a loop body that reports at most one issue per block
BlockIssuesFirstOnly(block, prev_hash) ==
  LET data == BlockData(block.height, block.previous_hash, block.nonce,
                        block.difficulty, block.message_hash,
                        LoadPayload(block.payload), AttachUtc(block.created_at))
  IN IF compute_hash(data) # block.hash
     THEN <<Issue("Hash mismatch", block.height)>>
     ELSE IF prev_hash # block.previous_hash /\ block.height # 0
     THEN <<Issue("Broken previous hash", block.height)>>
     ELSE IF ~StartsWithZeros(block.hash, block.difficulty)
     THEN <<Issue("Difficulty violation", block.height)>>
     ELSE <<>>

\* a loop body that checks the linkage of the block at height 0 as well
BlockIssuesNoExemption(block, prev_hash) ==
  LET data == BlockData(block.height, block.previous_hash, block.nonce,
                        block.difficulty, block.message_hash,
                        LoadPayload(block.payload), AttachUtc(block.created_at))
  IN (IF compute_hash(data) # block.hash
      THEN <<Issue("Hash mismatch", block.height)>> ELSE <<>>)
     \o (IF prev_hash # block.previous_hash
         THEN <<Issue("Broken previous hash", block.height)>> ELSE <<>>)
     \o (IF ~StartsWithZeros(block.hash, block.difficulty)
         THEN <<Issue("Difficulty violation", block.height)>> ELSE <<>>)

\* a loop body that does not compare previous_hash with the row before
BlockIssuesNoLink(block, prev_hash) ==
  LET data == BlockData(block.height, block.previous_hash, block.nonce,
                        block.difficulty, block.message_hash,
                        LoadPayload(block.payload), AttachUtc(block.created_at))
  IN (IF compute_hash(data) # block.hash
      THEN <<Issue("Hash mismatch", block.height)>> ELSE <<>>)
     \o (IF ~StartsWithZeros(block.hash, block.difficulty)
         THEN <<Issue("Difficulty violation", block.height)>> ELSE <<>>)

\* the body of validate_chain's loop for one block
BlockIssues(block, prev_hash) ==
  LET data == BlockData(block.height, block.previous_hash, block.nonce,
                        block.difficulty, block.message_hash,
                        LoadPayload(block.payload), AttachUtc(block.created_at))
  IN (IF compute_hash(data) # block.hash
      THEN <<Issue("Hash mismatch", block.height)>> ELSE <<>>)
     \o (IF prev_hash # block.previous_hash /\ block.height # 0
         THEN <<Issue("Broken previous hash", block.height)>> ELSE <<>>)
     \o (IF ~StartsWithZeros(block.hash, block.difficulty)
         THEN <<Issue("Difficulty violation", block.height)>> ELSE <<>>)

RECURSIVE ChainIssues(_, _)
ChainIssues(sorted, i) ==
  IF i > Len(sorted) THEN <<>>
  ELSE BlockIssues(sorted[i], IF i = 1 THEN None ELSE sorted[i - 1].hash)
       \o ChainIssues(sorted, i + 1)

\* a validate_chain that takes a chain without blocks for a broken one
ValidateChainNeedsBlocks(bs) ==
  LET issues == ChainIssues(OrderByHeight(bs), 1)
  IN [valid |-> Len(issues) = 0 /\ bs # <<>>, issues |-> issues]

\* BlockchainEngine.validate_chain
validate_chain(bs) ==
  LET issues == ChainIssues(OrderByHeight(bs), 1)
  IN [valid |-> Len(issues) = 0, issues |-> issues]

Idle == [pc |-> "idle"]
NoCopy == [on |-> FALSE]
NoReply == [on |-> FALSE]

InFlight == {m \in Miners : miner[m].pc = "mined"}

\* mine_block up to the end of the search: the head is read, the block is mined
MineRead(m, call, message_hash) ==
  /\ miner[m].pc = "idle"
  /\ Len(blocks) + Cardinality(InFlight) < MaxBlocks
  /\ \E last \in (IF blocks = <<>> THEN {0} ELSE LastBlocks(blocks)) :
       miner' = [miner EXCEPT ![m] =
                   [pc |-> "mined", caller |-> call.caller,
                    block |-> MinedBlock(blocks, last, message_hash, call.payload, now)]]
  /\ UNCHANGED <<now, blocks, reply, copy>> /\ UNCHANGED nonLedgerVars

\* mine_block's db.add / db.commit; _persist_message is done after it, add_block
\* goes on to validate the chain
MineInsert(m) ==
  /\ miner[m].pc = "mined"
  /\ blocks' = Append(blocks, miner[m].block)
  /\ miner' = [miner EXCEPT ![m] =
                 IF miner[m].caller = "add_block"
                 THEN [pc |-> "inserted", block |-> miner[m].block]
                 ELSE Idle]
  /\ UNCHANGED <<now, reply, copy>> /\ UNCHANGED nonLedgerVars

\* add_block: engine.validate_chain(db) and the response
AddBlockReply(m) ==
  /\ miner[m].pc = "inserted"
  /\ LET v == validate_chain(blocks)
     IN reply' = [on |-> TRUE, block |-> miner[m].block,
                  valid |-> v.valid, details |-> v.issues]
  /\ miner' = [miner EXCEPT ![m] = Idle]
  /\ UNCHANGED <<now, blocks, copy>> /\ UNCHANGED nonLedgerVars

LedgerTick ==
  /\ now < MaxLedgerTime
  /\ now' = now + 1
  /\ UNCHANGED ledgerVars /\ UNCHANGED nonLedgerVars

Init ==
  /\ now = 0
  /\ blocks = <<>>
  /\ miner = [m \in Miners |-> Idle]
  /\ reply = NoReply
  /\ copy = NoCopy
  /\ contact_links = {}
  /\ kdc_sessions = <<>>
  /\ key_events = <<>>
  /\ kdc_buckets = [k \in {} |-> <<>>]
  /\ next_key = 0
  /\ kdc_reply = NoReply
  /\ pfs_sessions = <<>>
  /\ pending = [k \in {} |-> None]
  /\ pfs_buckets = [k \in {} |-> <<>>]
  /\ completer = [r \in Requests |-> Idle]
  /\ pfs_reply = NoReply
  /\ rate_log = <<>>
  /\ events_reply = NoReply
  /\ contact_reply = NoReply
  /\ online_users = <<>>
  /\ sid_to_user = <<>>
  /\ removed = [users |-> {}, kdc_sessions |-> {}, pfs_sessions |-> {}]

NextLedger ==
  \/ \E m \in Miners, c \in Calls, h \in SeqMessages : MineRead(m, c, h)
  \/ \E m \in Miners : MineInsert(m)
  \/ \E m \in Miners : AddBlockReply(m)
  \/ LedgerTick

\* the ledger with request threads running concurrently
SpecLedger == Init /\ [][NextLedger]_vars

AllIdle == \A m \in Miners : miner[m].pc = "idle"

NextLedgerSeq ==
  \/ \E c \in Calls, h \in SeqMessages : AllIdle /\ MineRead("m1", c, h)
  \/ MineInsert("m1")
  \/ AddBlockReply("m1")
  \/ LedgerTick

\* the ledger with one mine_block call at a time
SpecLedgerSeq == Init /\ [][NextLedgerSeq]_vars

\* routes/blockchain.validate_chain: GET /blockchain/validate, which names no block
ValidateRoute ==
  /\ LET v == validate_chain(blocks)
     IN reply' = [on |-> TRUE, block |-> None, valid |-> v.valid, details |-> v.issues]
  /\ UNCHANGED <<now, blocks, miner, copy>> /\ UNCHANGED nonLedgerVars

NextValidate ==
  \/ NextLedgerSeq
  \/ ValidateRoute

\* mining, one call at a time, with the chain validated at any moment
SpecValidate == Init /\ [][NextValidate]_vars

\* order_by(Block.height.asc()) as SQL defines it: rows of equal height in any order
HeightOrders(bs) ==
  LET n == Len(bs)
  IN {s \in {[i \in 1..n |-> bs[p[i]]] : p \in Permutations(1..n)} :
        \A i \in 1..(n - 1) : s[i].height <= s[i + 1].height}

NextFork ==
  \/ \E m \in Miners, c \in {x \in Calls : x.caller = "add_block"} : MineRead(m, c, "h0")
  \/ \E m \in Miners : MineInsert(m)
  \/ \E m \in Miners : AddBlockReply(m)
  \/ LedgerTick
  \/ ValidateRoute

\* request threads mining concurrently, with the chain validated at any moment
SpecFork == Init /\ [][NextFork]_vars

\* ---------------------------------------------------- tampered copies

TamperFields == {"nonce", "hash", "previous_hash", "message_hash", "difficulty"}

\* the values a stored field may be overwritten with
FieldValues(bs, i, f) ==
  CASE f = "nonce" -> {0, bs[i].nonce + 1}
    [] f = "difficulty" -> {0, bs[i].difficulty - 1, bs[i].difficulty + 1}
    [] f = "message_hash" -> Messages \cup {"bad"}
    [] f = "previous_hash" ->
         {None, Str(""), Str("GENESIS"), Str("0000")} \cup {bs[j].hash : j \in 1..Len(bs)}
    [] f = "hash" ->
         {Str(""), Str("0000")} \cup {bs[j].hash : j \in 1..Len(bs)}

\* one stored field of one block of a valid chain is changed in a copy of the
\* table, and validate_chain runs on the copy
TamperCopy(i, f, v) ==
  /\ AllIdle
  /\ ~copy.on
  /\ i \in 1..Len(blocks)
  /\ validate_chain(blocks).valid
  /\ v # blocks[i][f]
  /\ LET chain == [blocks EXCEPT ![i][f] = v]
         verdict == validate_chain(chain)
     IN copy' = [on |-> TRUE, chain |-> chain, height |-> blocks[i].height,
                 field |-> f, valid |-> verdict.valid, issues |-> verdict.issues]
  /\ UNCHANGED <<now, blocks, miner, reply>> /\ UNCHANGED nonLedgerVars

\* the copy is thrown away
DiscardCopy ==
  /\ copy.on
  /\ copy' = NoCopy
  /\ UNCHANGED <<now, blocks, miner, reply>> /\ UNCHANGED nonLedgerVars

NextTamper ==
  \/ \E c \in Calls, h \in Messages : AllIdle /\ ~copy.on /\ MineRead("m1", c, h)
  \/ MineInsert("m1")
  \/ AddBlockReply("m1")
  \/ \E i \in 1..MaxBlocks, f \in TamperFields :
       \E v \in (IF i <= Len(blocks) THEN FieldValues(blocks, i, f) ELSE {}) :
         TamperCopy(i, f, v)
  \/ DiscardCopy

\* sequential mining, and tampering with a copy of the chain
SpecTamper == Init /\ [][NextTamper]_vars

\* the stored fields that are overwritten when several blocks are corrupted
CorruptFields == {"hash", "previous_hash", "difficulty"}

\* what a field is overwritten with: a hash that meets no difficulty or one of
\* four zeros, a previous_hash that is no block's hash, a greater difficulty
CorruptValues(bs, i, f) ==
  CASE f = "hash" -> {Str(""), Str("0000")}
    [] f = "previous_hash" -> {Str("0000")}
    [] f = "difficulty" -> {bs[i].difficulty + HexLen}

\* one more stored field of a block is changed in the copy of a valid chain
\* (the copy is made at the first change), and validate_chain runs on the copy
CorruptCopy(i, f, v) ==
  /\ AllIdle
  /\ i \in 1..Len(blocks)
  /\ LET old == IF copy.on THEN copy.chain ELSE blocks
         touched == IF copy.on THEN copy.touched ELSE {}
         chain == [old EXCEPT ![i][f] = v]
         verdict == validate_chain(chain)
     IN /\ <<i, f>> \notin touched
        /\ Cardinality(touched) < MaxCorruptions
        /\ v # old[i][f]
        /\ validate_chain(blocks).valid
        /\ copy' = [on |-> TRUE, chain |-> chain, touched |-> touched \cup {<<i, f>>},
                    valid |-> verdict.valid, issues |-> verdict.issues]
  /\ UNCHANGED <<now, blocks, miner, reply>> /\ UNCHANGED nonLedgerVars

NextCorrupt ==
  \/ \E c \in {x \in Calls : x.caller = "add_block"} :
       AllIdle /\ ~copy.on /\ MineRead("m1", c, "h0")
  \/ MineInsert("m1")
  \/ AddBlockReply("m1")
  \/ \E i \in 1..MaxBlocks, f \in CorruptFields :
       \E v \in (IF i <= Len(blocks) THEN CorruptValues(blocks, i, f) ELSE {}) :
         CorruptCopy(i, f, v)
  \/ DiscardCopy

\* sequential mining, and a copy of the chain in which several stored fields
\* are overwritten
SpecCorrupt == Init /\ [][NextCorrupt]_vars

\* ------------------------------------------------------- rate limiter

\* a prune loop that also drops the timestamp that is exactly per_seconds old
RECURSIVE PruneAtBoundary(_, _)
PruneAtBoundary(timestamps, t) ==
  IF timestamps # <<>> /\ t - Head(timestamps) >= per_seconds
  THEN PruneAtBoundary(Tail(timestamps), t) ELSE timestamps

\* RateBucket.allow: the while-loop that drops the timestamps older than the window
RECURSIVE Prune(_, _)
Prune(timestamps, t) ==
  IF timestamps # <<>> /\ t - Head(timestamps) > per_seconds
  THEN Prune(Tail(timestamps), t) ELSE timestamps

\* an allow that admits a call when the bucket is exactly full
AllowOneTooMany(timestamps, t) ==
  IF Len(timestamps) > max_requests
  THEN [ok |-> FALSE, timestamps |-> timestamps]
  ELSE [ok |-> TRUE, timestamps |-> Append(timestamps, t)]

\* an allow that prunes and records but never refuses
AllowWithoutLimit(timestamps, t) ==
  [ok |-> TRUE, timestamps |-> Append(Prune(timestamps, t), t)]

\* an allow that records the calls it refuses too
AllowRecordsDenied(timestamps, t) ==
  LET kept == Prune(timestamps, t)
  IN [ok |-> Len(kept) < max_requests, timestamps |-> Append(kept, t)]

\* RateBucket.allow
allow(timestamps, t) ==
  LET kept == Prune(timestamps, t)
  IN IF Len(kept) >= max_requests
     THEN [ok |-> FALSE, timestamps |-> kept]
     ELSE [ok |-> TRUE, timestamps |-> Append(kept, t)]

\* a limiter that keeps one bucket for all its keys
CheckSharedBucket(buckets, key, t) ==
  LET r == allow(IF DOMAIN buckets # {}
                 THEN buckets[CHOOSE k \in DOMAIN buckets : TRUE] ELSE <<>>, t)
  IN [ok |-> r.ok,
      buckets |-> [k \in DOMAIN buckets \cup {key} |-> r.timestamps]]

\* a check that answers without recording the call
CheckWithoutRecording(buckets, key, t) ==
  [ok |-> allow(IF key \in DOMAIN buckets THEN buckets[key] ELSE <<>>, t).ok,
   buckets |-> buckets]

\* RateLimiter.check: the bucket of a key is made on its first call
check(buckets, key, t) ==
  LET r == allow(IF key \in DOMAIN buckets THEN buckets[key] ELSE <<>>, t)
  IN [ok |-> r.ok,
      buckets |-> [k \in DOMAIN buckets \cup {key} |->
                     IF k = key THEN r.timestamps ELSE buckets[k]]]


\* the keys the limiter is asked about, and the pauses between calls
RateKeys == {"u1", "u2"}
RateSteps == {per_seconds \div 2, per_seconds \div 2 + 1}

\* kdc.service.request_limiter: one call of _rate_limiter.check(key)
CheckCall(key) ==
  /\ Len(rate_log) < MaxRateCalls
  /\ LET r == check(kdc_buckets, key, now)
     IN /\ kdc_buckets' = r.buckets
        /\ rate_log' = Append(rate_log, [key |-> key, t |-> now, ok |-> r.ok])
  /\ UNCHANGED <<now, contact_links, kdc_sessions, key_events, next_key, kdc_reply,
                 events_reply, contact_reply, online_users, sid_to_user, removed>>
  /\ UNCHANGED ledgerVars /\ UNCHANGED pfsVars

\* time.monotonic() moves on between two calls
RateTick ==
  /\ \E d \in RateSteps :
       /\ now + d <= MaxRateTime
       /\ now' = now + d
  /\ UNCHANGED ledgerVars /\ UNCHANGED nonLedgerVars

NextRate ==
  \/ \E key \in RateKeys : CheckCall(key)
  \/ RateTick

\* the limiter alone, called at any pace
SpecRate == Init /\ [][NextRate]_vars

\* pfs.ecdh_service: one call of its own _rate_limiter.check(key)
PfsCheckCall(key) ==
  /\ pfs_buckets' = check(pfs_buckets, key, now).buckets
  /\ UNCHANGED <<now, pfs_sessions, pending, completer, pfs_reply>>
  /\ UNCHANGED ledgerVars /\ UNCHANGED kdcVars /\ UNCHANGED auxVars

\* a pause longer than the window
WindowTick ==
  /\ now + per_seconds + 1 <= MaxRateTime
  /\ now' = now + per_seconds + 1
  /\ UNCHANGED ledgerVars /\ UNCHANGED nonLedgerVars

NextLimiters ==
  \/ \E key \in RateKeys : CheckCall(key)
  \/ \E key \in RateKeys :
       (key \in DOMAIN pfs_buckets => Len(pfs_buckets[key]) < MaxPfsCalls)
         /\ PfsCheckCall(key)
  \/ WindowTick

\* the limiter of the KDC and the limiter of the handshake service side by side
SpecLimiters == Init /\ [][NextLimiters]_vars

\* ---------------------------------------------------------------- KDC

\* secrets.token_bytes(32) / os.urandom(32): the n-th random key
RawKey(n) == [kind |-> "bytes", id |-> n]
\* helpers.b64encode_bytes: an encoding, readable by anyone
b64encode_bytes(data) == [kind |-> "b64", data |-> data]
\* a fingerprint column that is given the key bytes themselves
FingerprintKeepsKey(key_bytes) == key_bytes

\* a fingerprint that is never filled in
FingerprintUnset(key_bytes) == None

\* hashlib.sha256(key_bytes).hexdigest()
fingerprint(key_bytes) == [kind |-> "sha256", pre |-> key_bytes]

\* a datetime column (None when unset)
Dt(t) == [kind |-> "datetime", t |-> t]

\* whether user.public_key_pem is set
HasPublicKey(u) == u \in {"u1", "u3"}

\* an envelope that is the key material itself
EncryptForUserPlain(u, key_material_b64) == key_material_b64

\* _encrypt_for_user: RSA-OAEP under the user's public key, else encrypt_blob
encrypt_for_user(u, key_material_b64) ==
  IF HasPublicKey(u)
  THEN [kind |-> "rsa_oaep", to |-> u, plaintext |-> key_material_b64]
  ELSE [kind |-> "aes_gcm", plaintext |-> key_material_b64]

\* the order of the user ids as strings
UserRank(u) == CASE u = "u1" -> 1 [] u = "u2" -> 2 [] OTHER -> 3

\* a pair left in the order caller, target
PairIdsAsGiven(a, b) == <<a, b>>

\* contacts._pair_ids: the pair in id order
pair_ids(a, b) == IF UserRank(a) < UserRank(b) THEN <<a, b>> ELSE <<b, a>>

\* _ensure_contact's query: the links between two users, in either order
LinksBetween(links, a, b) ==
  {l \in links : \/ l.user_a_id = a /\ l.user_b_id = b
                 \/ l.user_a_id = b /\ l.user_b_id = a}


\* contact.session_key_base64 = key_b64 on the link of a pair
SetLinkKey(links, a, b, key_b64) ==
  {IF l \in LinksBetween(links, a, b)
   THEN [l EXCEPT !.session_key_base64 = key_b64] ELSE l : l \in links}

\* a record_event that adds and commits the row twice
RecordEventTwice(events, source, event_type, actor_id, kdc_session_id, payload, t) ==
  LET e == [source |-> source, event_type |-> event_type,
            actor_id |-> actor_id, kdc_session_id |-> kdc_session_id,
            payload |-> payload, created_at |-> Dt(t)]
  IN Append(Append(events, e), e)

\* a record_event that writes over the newest row instead of adding one
RecordEventOverLast(events, source, event_type, actor_id, kdc_session_id, payload, t) ==
  LET e == [source |-> source, event_type |-> event_type,
            actor_id |-> actor_id, kdc_session_id |-> kdc_session_id,
            payload |-> payload, created_at |-> Dt(t)]
  IN IF events = <<>> THEN <<e>> ELSE [events EXCEPT ![Len(events)] = e]

\* KeyLifecycleManager.record_event; kdc_session_id 0 stands for None
record_event(events, source, event_type, actor_id, kdc_session_id, payload, t) ==
  Append(events, [source |-> source, event_type |-> event_type,
                  actor_id |-> actor_id, kdc_session_id |-> kdc_session_id,
                  payload |-> payload, created_at |-> Dt(t)])

KdcReply(op, code, sid) == [on |-> TRUE, op |-> op, code |-> code, session |-> sid]

\* an HTTPException raised before anything is committed
KdcReject(op, code, sid) ==
  /\ kdc_reply' = KdcReply(op, code, sid)
  /\ UNCHANGED <<contact_links, kdc_sessions, key_events, next_key>>

\* a session left as it was built
MarkDistributedForgotten(session, t) == session

\* KDCSession.mark_distributed
mark_distributed(session, t) ==
  [session EXCEPT !.lifecycle_state = "distributed",
                  !.distributed_at = IF @ # None THEN @ ELSE Dt(t)]


\* a revoke that also blanks the fingerprint of the key
MarkRevokedWipesKey(session, state, t) ==
  [session EXCEPT !.lifecycle_state = state, !.status = state,
                  !.destroyed_at = IF @ # None THEN @ ELSE Dt(t),
                  !.key_fingerprint = Str("")]

\* KDCSession.mark_revoked
mark_revoked(session, state, t) ==
  LET s1 == [session EXCEPT !.lifecycle_state = state, !.status = state]
  IN IF state \in {"revoked", "destroyed"}
     THEN [s1 EXCEPT !.destroyed_at = IF @ # None THEN @ ELSE Dt(t)]
     ELSE s1

\* kdc/routes.request_session_key with kdc/service.issue_session
IssueSession(sender, receiver) ==
  LET lim == check(kdc_buckets, sender, now)
  IN /\ kdc_buckets' = IF receiver \in KnownUsers THEN lim.buckets ELSE kdc_buckets
     /\ IF receiver \notin KnownUsers THEN KdcReject("issue", 404, 0)
        ELSE IF ~lim.ok THEN KdcReject("issue", 429, 0)
        ELSE IF sender = receiver THEN KdcReject("issue", 400, 0)
        ELSE IF LinksBetween(contact_links, sender, receiver) = {}
        THEN KdcReject("issue", 400, 0)
        ELSE
          LET key_bytes == RawKey(next_key + 1)
              key_b64 == b64encode_bytes(key_bytes)
              session == mark_distributed(
                [sender_id |-> sender, receiver_id |-> receiver,
                 encrypted_key_for_sender |-> encrypt_for_user(sender, key_b64),
                 encrypted_key_for_receiver |-> encrypt_for_user(receiver, key_b64),
                 key_fingerprint |-> fingerprint(key_bytes),
                 status |-> "active", lifecycle_state |-> "generated",
                 generated_at |-> Dt(now), distributed_at |-> None,
                 expires_at |-> Dt(now + 60 * session_minutes),
                 destroyed_at |-> None], now)
              id == Len(kdc_sessions) + 1
          IN /\ Len(kdc_sessions) < MaxSessions
             /\ Len(key_events) < MaxEvents
             /\ next_key' = next_key + 1
             /\ kdc_sessions' = Append(kdc_sessions, session)
             /\ contact_links' = SetLinkKey(contact_links, sender, receiver, key_b64)
             /\ key_events' = record_event(key_events, "KDC", "generated", sender, id,
                                [receiverId |-> receiver,
                                 fingerprint |-> session.key_fingerprint], now)
             /\ kdc_reply' = KdcReply("issue", 200, id)
  /\ UNCHANGED now
  /\ UNCHANGED ledgerVars /\ UNCHANGED auxVars /\ UNCHANGED pfsVars

\* a rotation that leaves expires_at as it was
RotateSessionKeepsExpiry(id, actor) ==
  /\ IF id > Len(kdc_sessions) THEN KdcReject("rotate", 404, id)
     ELSE IF actor \notin {kdc_sessions[id].sender_id, kdc_sessions[id].receiver_id}
     THEN KdcReject("rotate", 403, id)
     ELSE
       LET old == kdc_sessions[id]
           key_bytes == RawKey(next_key + 1)
           key_b64 == b64encode_bytes(key_bytes)
           session ==
             [old EXCEPT
                !.encrypted_key_for_sender = encrypt_for_user(old.sender_id, key_b64),
                !.encrypted_key_for_receiver = encrypt_for_user(old.receiver_id, key_b64),
                !.key_fingerprint = fingerprint(key_bytes),
                !.lifecycle_state = "rotated",
                !.status = "active"]
       IN IF LinksBetween(contact_links, old.sender_id, old.receiver_id) = {}
          THEN KdcReject("rotate", 400, id)
          ELSE /\ Len(key_events) < MaxEvents
               /\ next_key' = next_key + 1
               /\ kdc_sessions' = [kdc_sessions EXCEPT ![id] = session]
               /\ contact_links' = SetLinkKey(contact_links, old.sender_id,
                                              old.receiver_id, key_b64)
               /\ key_events' = record_event(key_events, "LIFECYCLE", "rotated", actor,
                                  id, [fingerprint |-> session.key_fingerprint], now)
               /\ kdc_reply' = KdcReply("rotate", 200, id)
  /\ UNCHANGED <<now, kdc_buckets>>
  /\ UNCHANGED ledgerVars /\ UNCHANGED auxVars /\ UNCHANGED pfsVars

\* key_lifecycle/routes.rotate_session with kdc/service.rotate_session
RotateSession(id, actor) ==
  /\ IF id > Len(kdc_sessions) THEN KdcReject("rotate", 404, id)
     ELSE IF actor \notin {kdc_sessions[id].sender_id, kdc_sessions[id].receiver_id}
     THEN KdcReject("rotate", 403, id)
     ELSE
       LET old == kdc_sessions[id]
           key_bytes == RawKey(next_key + 1)
           key_b64 == b64encode_bytes(key_bytes)
           session ==
             [old EXCEPT
                !.encrypted_key_for_sender = encrypt_for_user(old.sender_id, key_b64),
                !.encrypted_key_for_receiver = encrypt_for_user(old.receiver_id, key_b64),
                !.key_fingerprint = fingerprint(key_bytes),
                !.lifecycle_state = "rotated",
                !.status = "active",
                !.expires_at = Dt(now + 60 * session_minutes)]
       IN IF LinksBetween(contact_links, old.sender_id, old.receiver_id) = {}
          THEN KdcReject("rotate", 400, id)
          ELSE /\ Len(key_events) < MaxEvents
               /\ next_key' = next_key + 1
               /\ kdc_sessions' = [kdc_sessions EXCEPT ![id] = session]
               /\ contact_links' = SetLinkKey(contact_links, old.sender_id,
                                              old.receiver_id, key_b64)
               /\ key_events' = record_event(key_events, "LIFECYCLE", "rotated", actor,
                                  id, [fingerprint |-> session.key_fingerprint], now)
               /\ kdc_reply' = KdcReply("rotate", 200, id)
  /\ UNCHANGED <<now, kdc_buckets>>
  /\ UNCHANGED ledgerVars /\ UNCHANGED auxVars /\ UNCHANGED pfsVars

\* a revoke or destroy that does not ask who is calling
RevokeSessionUnchecked(id, actor, state) ==
  /\ IF id > Len(kdc_sessions) THEN KdcReject(state, 404, id)
     ELSE /\ Len(key_events) < MaxEvents
          /\ kdc_sessions' = [kdc_sessions EXCEPT
                                ![id] = mark_revoked(kdc_sessions[id], state, now)]
          /\ key_events' = record_event(key_events, "LIFECYCLE", state, actor, id,
                                        [status |-> state], now)
          /\ kdc_reply' = KdcReply(state, 200, id)
          /\ UNCHANGED <<contact_links, next_key>>
  /\ UNCHANGED <<now, kdc_buckets>>
  /\ UNCHANGED ledgerVars /\ UNCHANGED auxVars /\ UNCHANGED pfsVars

\* key_lifecycle/routes._finalize_state with kdc/service.revoke_session
RevokeSession(id, actor, state) ==
  /\ IF id > Len(kdc_sessions) THEN KdcReject(state, 404, id)
     ELSE IF actor \notin {kdc_sessions[id].sender_id, kdc_sessions[id].receiver_id}
     THEN KdcReject(state, 403, id)
     ELSE /\ Len(key_events) < MaxEvents
          /\ kdc_sessions' = [kdc_sessions EXCEPT
                                ![id] = mark_revoked(kdc_sessions[id], state, now)]
          /\ key_events' = record_event(key_events, "LIFECYCLE", state, actor, id,
                                        [status |-> state], now)
          /\ kdc_reply' = KdcReply(state, 200, id)
          /\ UNCHANGED <<contact_links, next_key>>
  /\ UNCHANGED <<now, kdc_buckets>>
  /\ UNCHANGED ledgerVars /\ UNCHANGED auxVars /\ UNCHANGED pfsVars

KdcTick ==
  /\ \E d \in {per_seconds + 1} :
       /\ now + d <= MaxKdcTime
       /\ now' = now + d
  /\ UNCHANGED ledgerVars /\ UNCHANGED auxVars /\ UNCHANGED kdcVars /\ UNCHANGED pfsVars

TerminalStates == {"revoked", "destroyed"}

RECURSIVE SumLen(_, _)
SumLen(f, keys) ==
  IF keys = {} THEN 0
  ELSE LET k == CHOOSE x \in keys : TRUE IN Len(f[k]) + SumLen(f, keys \ {k})

\* the request-session-key calls still counted in some window
KdcCalls == SumLen(kdc_buckets, DOMAIN kdc_buckets)

\* the request-session-key calls made: to a contact, to the caller itself, to a
\* stranger, to an unknown id
IssueCalls == {<<"u1", "u2">>, <<"u1", "u1">>, <<"u1", "u3">>, <<"u1", "nobody">>}

NextKDC ==
  \/ \E c \in IssueCalls : KdcCalls < MaxKdcCalls /\ IssueSession(c[1], c[2])
  \/ \E id \in 1..MaxSessions, a \in Users : RotateSession(id, a)
  \/ \E id \in 1..MaxSessions, a \in Users, st \in TerminalStates : RevokeSession(id, a, st)
  \/ KdcTick

\* the state after u1 has added u2 as a contact (routes/contacts.add_contact)
InitLinked ==
  /\ now = 0
  /\ blocks = <<>>
  /\ miner = [m \in Miners |-> Idle]
  /\ reply = NoReply
  /\ copy = NoCopy
  /\ contact_links = {[id |-> 1, user_a_id |-> "u1", user_b_id |-> "u2",
                       status |-> "accepted",
                       session_key_base64 |-> b64encode_bytes(RawKey(1))]}
  /\ kdc_sessions = <<>>
  /\ key_events = <<>>
  /\ kdc_buckets = [k \in {} |-> <<>>]
  /\ next_key = 1
  /\ kdc_reply = NoReply
  /\ pfs_sessions = <<>>
  /\ pending = [k \in {} |-> None]
  /\ pfs_buckets = [k \in {} |-> <<>>]
  /\ completer = [r \in Requests |-> Idle]
  /\ pfs_reply = NoReply
  /\ rate_log = <<>>
  /\ events_reply = NoReply
  /\ contact_reply = NoReply
  /\ online_users = <<>>
  /\ sid_to_user = <<>>
  /\ removed = [users |-> {}, kdc_sessions |-> {}, pfs_sessions |-> {}]

\* the KDC and lifecycle routes; each runs to its commit without yielding
SpecKDC == InitLinked /\ [][NextKDC]_vars

\* ------------------------------------------------------------ contacts

\* the e-mail addresses a caller may name: one per user, and one of nobody
Emails == Users \cup {"nobody"}

\* db.query(User).filter(User.email == email).first(); None when there is none
UserByEmail(email) == IF email \in Users THEN Str(email) ELSE None

\* the query of add_contact: the link stored under (user_a_id, user_b_id)
LinkOfPair(links, pair) ==
  {l \in links : l.user_a_id = pair[1] /\ l.user_b_id = pair[2]}

ContactReply(code, caller, peer, linkId) ==
  [on |-> TRUE, code |-> code, caller |-> caller, peer |-> peer, linkId |-> linkId]

\* routes/contacts.add_contact, up to its commit and the payload it returns
AddContact(current, email) ==
  /\ LET target == UserByEmail(email)
     IN IF target = None
        THEN /\ contact_reply' = ContactReply(404, current, email, 0)
             /\ UNCHANGED <<contact_links, next_key>>
        ELSE IF target.v = current
        THEN /\ contact_reply' = ContactReply(400, current, email, 0)
             /\ UNCHANGED <<contact_links, next_key>>
        ELSE
          LET pair == pair_ids(current, target.v)
              found == LinkOfPair(contact_links, pair)
          IN IF found = {}
             THEN LET link == [id |-> Cardinality(contact_links) + 1,
                               user_a_id |-> pair[1], user_b_id |-> pair[2],
                               status |-> "accepted",
                               session_key_base64 |->
                                 b64encode_bytes(RawKey(next_key + 1))]
                  IN /\ contact_links' = contact_links \cup {link}
                     /\ next_key' = next_key + 1
                     /\ contact_reply' = ContactReply(200, current, target.v, link.id)
             ELSE LET link == CHOOSE l \in found : TRUE
                  IN /\ contact_links' =
                          (contact_links \ {link})
                            \cup {[link EXCEPT !.status = "accepted"]}
                     /\ UNCHANGED next_key
                     /\ contact_reply' = ContactReply(200, current, target.v, link.id)
  /\ UNCHANGED <<now, kdc_sessions, key_events, kdc_buckets, kdc_reply,
                 rate_log, events_reply, online_users, sid_to_user, removed>>
  /\ UNCHANGED ledgerVars /\ UNCHANGED pfsVars

NextContacts == \E current \in Users, email \in Emails : AddContact(current, email)

\* the users add each other as contacts, one request at a time
SpecContacts == Init /\ [][NextContacts]_vars

\* -------------------------------------------------------------- claims

Heights(bs) == {bs[i].height : i \in 1..Len(bs)}

\* C2: under any interleaving of mine_block calls the blocks table never holds
\* two blocks of the same height.
C2_NoTwoBlocksAtOneHeight ==
  \A i, j \in 1..Len(blocks) : i # j => blocks[i].height # blocks[j].height

\* C8: a chain built by successive, non-concurrent mine_block calls from an empty
\* ledger validates as (True, []), and every add_block response reports valid.
C8_SequentialChainValid ==
  /\ validate_chain(blocks) = [valid |-> TRUE, issues |-> <<>>]
  /\ reply.on => reply.valid /\ reply.details = <<>>

C8_Witness ==
  /\ Len(blocks) >= 3
  /\ reply.on /\ reply.block = blocks[Len(blocks)]
  /\ \E i \in 1..Len(blocks) : blocks[i].created_at.t > 0

IssueHeights(issues) == {issues[k].height : k \in 1..Len(issues)}

\* C9: changing exactly one stored nonce, hash, previous_hash, message_hash or
\* difficulty of a valid chain makes validate_chain return False with an issue
\* that names the height of the changed block.
C9_TamperDetected ==
  copy.on => ~copy.valid /\ copy.height \in IssueHeights(copy.issues)

\* the digest mine_block's loop computes for the block's header with another nonce
DigestWithNonce(block, n) ==
  compute_hash(BlockData(block.height, block.previous_hash, n, block.difficulty,
                         block.message_hash, LoadPayload(block.payload),
                         AttachUtc(block.created_at)))

MinedBlocks ==
  {blocks[i] : i \in 1..Len(blocks)}
    \cup {miner[m].block : m \in {x \in Miners : miner[x].pc = "mined"}}

\* C10: a mined block's hash has at least difficulty leading '0' characters and
\* its nonce is the least whose header digest, for the timestamp taken at the
\* start of mining, has that many.
C10_LeastNonce ==
  \A b \in MinedBlocks :
    /\ b.hash = DigestWithNonce(b, b.nonce)
    /\ LeadingZeros(b.hash) >= b.difficulty
    /\ b.difficulty = pow_difficulty
    /\ \A n \in 0..(b.nonce - 1) : LeadingZeros(DigestWithNonce(b, n)) < b.difficulty

C10_Witness ==
  \E i, j \in 1..Len(blocks) :
    /\ blocks[i].nonce > 1
    /\ blocks[j].nonce # blocks[i].nonce

NextIssue ==
  \/ \E c \in IssueCalls : KdcCalls < MaxIssueCalls /\ IssueSession(c[1], c[2])
  \/ KdcTick

\* /kdc/request-session-key alone, often enough to meet the rate limit
SpecIssue == InitLinked /\ [][NextIssue]_vars

\* no row has been written at the present clock reading: a handler reads the
\* clock later than the handler before it did
Fresh == \A k \in 1..Len(key_events) : key_events[k].created_at.t < now

\* datetime.now moves on between two requests
ClockTick ==
  /\ now < MaxClock
  /\ now' = now + 1
  /\ UNCHANGED ledgerVars /\ UNCHANGED nonLedgerVars

\* the two participants of the sessions issued here
Participants == {"u1", "u2"}

NextKDCClock ==
  \/ Fresh /\ KdcCalls < MaxKdcCalls /\ IssueSession("u1", "u2")
  \/ \E id \in 1..MaxSessions, a \in Participants : Fresh /\ RotateSession(id, a)
  \/ \E id \in 1..MaxSessions, a \in Participants, st \in TerminalStates :
       Fresh /\ RevokeSession(id, a, st)
  \/ ClockTick

\* the KDC and lifecycle routes, one request after the other on a clock that
\* has moved on since the request before
SpecKDCClock == InitLinked /\ [][NextKDCClock]_vars

\* ---------------------------------------------------------------- PFS

\* ec.generate_private_key(ec.SECP256R1()): the key made for the n-th handshake
EcPrivate(n) == [kind |-> "ec_private", id |-> n]
\* private_key.public_key().public_bytes(PEM, SubjectPublicKeyInfo)
PublicPem(private_key) == [kind |-> "pem", alg |-> "ec", of |-> private_key]

\* the clientEphemeralPublicKey texts a caller may send
ClientPems == {"ec-pem", "rsa-pem", "not-a-pem"}

\* serialization.load_pem_public_key: raises ValueError on a text that is no PEM key
load_pem_public_key(pem) ==
  CASE pem = "ec-pem" -> [ok |-> TRUE, key |-> [kind |-> "ec_public", pem |-> pem]]
    [] pem = "rsa-pem" -> [ok |-> TRUE, key |-> [kind |-> "rsa_public", pem |-> pem]]
    [] OTHER -> [ok |-> FALSE]

\* isinstance(client_public_key, ec.EllipticCurvePublicKey)
IsEllipticCurve(key) == key.kind = "ec_public"

\* private_key.exchange(ec.ECDH(), client_public_key)
exchange(private_key, public_key) ==
  [kind |-> "ecdh", private |-> private_key, public |-> public_key]

\* HKDF(SHA256, length=32, salt=None, info=b"cipherlink-pfs").derive(shared_secret)
hkdf_derive(shared_secret) ==
  [kind |-> "bytes", hkdf |-> shared_secret, info |-> "cipherlink-pfs"]

\* an entry of _pending: (private_key, expires)
PendingEntry(private_key, expires) ==
  [kind |-> "pending", private_key |-> private_key, expires |-> expires]

\* self._pending[sid] = entry
PendingPut(store, sid, entry) ==
  [k \in DOMAIN store \cup {sid} |-> IF k = sid THEN entry ELSE store[k]]

\* a _clean that drops the entries that have not expired yet
CleanInverted(store, t) ==
  [k \in {x \in DOMAIN store : ~(t < store[x].expires)} |-> store[k]]

\* a start that does not sweep
CleanSkipped(store, t) == store

\* EphemeralECDHService._clean: drop the entries with now > expires
clean(store, t) ==
  [k \in {x \in DOMAIN store : ~(t > store[x].expires)} |-> store[k]]

\* a lookup that leaves the entry in the store
PopWithoutRemoving(store, sid) ==
  [entry |-> IF sid \in DOMAIN store THEN store[sid] ELSE None, store |-> store]

\* self._pending.pop(sid, None)
pop(store, sid) ==
  [entry |-> IF sid \in DOMAIN store THEN store[sid] ELSE None,
   store |-> [k \in DOMAIN store \ {sid} |-> store[k]]]

PfsReply(code, sid) == [on |-> TRUE, op |-> "start", code |-> code, session |-> sid]

\* an HTTPException raised by /pfs/start before anything is committed
PfsReject(code) ==
  /\ pfs_reply' = PfsReply(code, 0)
  /\ UNCHANGED <<pfs_sessions, pending, key_events>>

\* pfs/routes.start_pfs with EphemeralECDHService.start
StartPfs(initiator, receiverId) ==
  /\ IF receiverId \notin KnownUsers
     THEN PfsReject(404) /\ UNCHANGED pfs_buckets
     ELSE
       LET lim == check(pfs_buckets, initiator, now)
       IN /\ pfs_buckets' = lim.buckets
          /\ IF ~lim.ok THEN PfsReject(429)
             ELSE IF LinksBetween(contact_links, initiator, receiverId) = {}
             THEN PfsReject(400)
             ELSE
               LET id == Len(pfs_sessions) + 1
                   private_key == EcPrivate(id)
                   session ==
                     [initiator_user_id |-> initiator, peer_user_id |-> receiverId,
                      server_public_key_pem |-> PublicPem(private_key),
                      shared_key_fingerprint |-> None, status |-> "pending",
                      created_at |-> Dt(now),
                      expires_at |-> Dt(now + 60 * active_minutes)]
               IN /\ Len(pfs_sessions) < MaxPfsSessions
                  /\ Len(key_events) < MaxEvents
                  /\ pfs_sessions' = Append(pfs_sessions, session)
                  /\ pending' = clean(PendingPut(pending, id,
                                        PendingEntry(private_key, now + ttl_seconds)), now)
                  /\ key_events' = record_event(key_events, "PFS", "start", initiator, 0,
                                     [peerId |-> receiverId, pfsSessionId |-> id], now)
                  /\ pfs_reply' = PfsReply(200, id)
  /\ UNCHANGED <<now, contact_links, completer>>
  /\ UNCHANGED ledgerVars /\ UNCHANGED auxVars /\ UNCHANGED kdcOnlyVars

\* the position of every /pfs/complete request, as one of them sees it on arrival
Positions == [r \in Requests |-> completer[r].pc]

\* a /pfs/complete request that has got its response
Done(sid, actor, pem, at, seen, entry, code, key) ==
  [pc |-> "done", sid |-> sid, actor |-> actor, pem |-> pem, at |-> at, seen |-> seen,
   entry |-> entry, code |-> code, key |-> key]

\* pfs/routes.complete_pfs up to the pop under the lock in
\* EphemeralECDHService.complete
CompleteBegin(r, sid, actor, pem) ==
  /\ completer[r].pc = "idle"
  /\ IF sid > Len(pfs_sessions)
     THEN /\ completer' = [completer EXCEPT ![r] =
                             Done(sid, actor, pem, now, Positions, None, 404, None)]
          /\ UNCHANGED pending
     ELSE IF actor \notin {pfs_sessions[sid].initiator_user_id,
                           pfs_sessions[sid].peer_user_id}
     THEN /\ completer' = [completer EXCEPT ![r] =
                             Done(sid, actor, pem, now, Positions, None, 403, None)]
          /\ UNCHANGED pending
     ELSE LET popped == pop(pending, sid)
          IN /\ pending' = popped.store
             /\ completer' = [completer EXCEPT ![r] =
                                [pc |-> "popped", sid |-> sid, actor |-> actor,
                                 pem |-> pem, at |-> now, seen |-> Positions,
                                 entry |-> popped.entry]]
  /\ UNCHANGED <<now, contact_links, key_events, pfs_sessions, pfs_buckets, pfs_reply>>
  /\ UNCHANGED ledgerVars /\ UNCHANGED auxVars /\ UNCHANGED kdcOnlyVars

\* EphemeralECDHService.complete after the lock is released
CompleteFinish(r) ==
  /\ completer[r].pc = "popped"
  /\ LET c == completer[r]
         fail(code) ==
           /\ completer' = [completer EXCEPT ![r] =
                              Done(c.sid, c.actor, c.pem, c.at, c.seen, c.entry, code, None)]
           /\ UNCHANGED <<pfs_sessions, contact_links, key_events>>
         loaded == load_pem_public_key(c.pem)
     IN IF c.entry = None THEN fail(410)
        ELSE IF ~loaded.ok THEN fail(500)
        ELSE IF ~IsEllipticCurve(loaded.key) THEN fail(400)
        ELSE
          LET session == pfs_sessions[c.sid]
              derived_key == hkdf_derive(exchange(c.entry.private_key, loaded.key))
              key_b64 == b64encode_bytes(derived_key)
          IN IF LinksBetween(contact_links, session.initiator_user_id,
                             session.peer_user_id) = {}
             THEN fail(400)
             ELSE /\ Len(key_events) < MaxEvents
                  /\ pfs_sessions' =
                       [pfs_sessions EXCEPT ![c.sid] =
                          [session EXCEPT
                             !.shared_key_fingerprint = fingerprint(derived_key),
                             !.status = "active",
                             !.expires_at = Dt(now + 60 * active_minutes)]]
                  /\ contact_links' = SetLinkKey(contact_links, session.initiator_user_id,
                                                 session.peer_user_id, key_b64)
                  /\ key_events' = record_event(key_events, "PFS", "established", c.actor,
                                     0, [pfsSessionId |-> c.sid,
                                         peerId |-> session.peer_user_id], now)
                  /\ completer' = [completer EXCEPT ![r] =
                                     Done(c.sid, c.actor, c.pem, c.at, c.seen, c.entry,
                                          200, key_b64)]
  /\ UNCHANGED <<now, pending, pfs_buckets, pfs_reply>>
  /\ UNCHANGED ledgerVars /\ UNCHANGED auxVars /\ UNCHANGED kdcOnlyVars

PfsTick ==
  /\ \E d \in {ttl_seconds + 1} :
       /\ now + d <= MaxPfsTime
       /\ now' = now + d
  /\ UNCHANGED ledgerVars /\ UNCHANGED auxVars /\ UNCHANGED kdcVars /\ UNCHANGED pfsVars

\* the /pfs/start calls still counted in some window
PfsCalls == SumLen(pfs_buckets, DOMAIN pfs_buckets)

\* the /pfs/start calls made: to a contact, to a stranger, to an unknown id
StartCalls == {<<"u1", "u2">>, <<"u1", "u3">>, <<"u1", "nobody">>}

\* the /pfs/complete calls made: by either participant or an outsider, with an
\* elliptic-curve key, a key of another kind, or a text that is no key
CompleteCalls == {<<"u1", "ec-pem">>, <<"u2", "ec-pem">>, <<"u2", "rsa-pem">>,
                  <<"u1", "not-a-pem">>, <<"u3", "ec-pem">>}

NextPFS ==
  \/ \E c \in StartCalls : PfsCalls < MaxPfsCalls /\ StartPfs(c[1], c[2])
  \/ \E r \in Requests, sid \in 1..MaxPfsSessions, c \in CompleteCalls :
       CompleteBegin(r, sid, c[1], c[2])
  \/ \E r \in Requests : CompleteFinish(r)
  \/ PfsTick

\* the handshake routes, with /pfs/complete requests interleaving at the lock
SpecPFS == InitLinked /\ [][NextPFS]_vars

\* the handshakes asked for: with a contact, with oneself, with a stranger,
\* with an unknown id
SlotStartCalls == StartCalls \cup {<<"u1", "u1">>}

NextSlots ==
  \/ \E c \in IssueCalls : KdcCalls < MaxIssueCalls /\ IssueSession(c[1], c[2])
  \/ \E c \in SlotStartCalls : PfsCalls < MaxIssueCalls /\ StartPfs(c[1], c[2])
  \/ KdcTick

\* the two rate-limited routes, called often enough to fill a window
SpecSlots == InitLinked /\ [][NextSlots]_vars

\* ------------------------------------------------------ account deletion

\* the ids of the sessions of a table that name the user in one of two columns
RowsOf(table, user, colA, colB) ==
  {i \in 1..Len(table) : user \in {table[i][colA], table[i][colB]}}

\* routes/users.delete_account. A session id is its index in the table, so the
\* ids of the deleted sessions are kept in removed and the rows stay in place.
DeleteAccount(user, password_ok, confirm) ==
  /\ user \notin removed.users
  /\ IF ~password_ok \/ ~confirm
     THEN UNCHANGED <<removed, key_events, contact_links>>
     ELSE /\ removed' =
               [users |-> removed.users \cup {user},
                kdc_sessions |-> removed.kdc_sessions
                  \cup RowsOf(kdc_sessions, user, "sender_id", "receiver_id"),
                pfs_sessions |-> removed.pfs_sessions
                  \cup RowsOf(pfs_sessions, user, "initiator_user_id", "peer_user_id")]
          /\ key_events' = SelectSeq(key_events, LAMBDA e : e.actor_id # user)
          /\ contact_links' = {l \in contact_links : user \notin {l.user_a_id, l.user_b_id}}
  /\ UNCHANGED <<now, kdc_sessions, kdc_buckets, next_key, kdc_reply>>
  /\ UNCHANGED <<rate_log, events_reply, contact_reply, online_users, sid_to_user>>
  /\ UNCHANGED ledgerVars /\ UNCHANGED pfsVars

\* /pfs/start of a user who still has an account
StartPfsLive(initiator, receiverId) ==
  /\ initiator \notin removed.users
  /\ IF receiverId \in removed.users
     THEN /\ pfs_reply' = PfsReply(404, 0)
          /\ UNCHANGED <<now, contact_links, key_events, pfs_sessions, pending,
                         pfs_buckets, completer>>
          /\ UNCHANGED ledgerVars /\ UNCHANGED auxVars /\ UNCHANGED kdcOnlyVars
     ELSE StartPfs(initiator, receiverId)

\* /pfs/complete of a user who still has an account
CompleteBeginLive(r, sid, actor, pem) ==
  /\ actor \notin removed.users
  /\ IF sid \in removed.pfs_sessions
     THEN /\ completer[r].pc = "idle"
          /\ completer' = [completer EXCEPT ![r] =
                             Done(sid, actor, pem, now, Positions, None, 404, None)]
          /\ UNCHANGED <<now, contact_links, key_events, pfs_sessions, pending,
                         pfs_buckets, pfs_reply>>
          /\ UNCHANGED ledgerVars /\ UNCHANGED auxVars /\ UNCHANGED kdcOnlyVars
     ELSE CompleteBegin(r, sid, actor, pem)

\* the /pfs/complete calls made while accounts come and go
LiveCompleteCalls == {<<"u1", "ec-pem">>, <<"u2", "ec-pem">>, <<"u2", "rsa-pem">>}

\* the users who delete their account: the two ends of the handshakes
Leavers == {"u1", "u2"}

NextAccounts ==
  \/ \E c \in StartCalls : PfsCalls < MaxPfsCalls /\ StartPfsLive(c[1], c[2])
  \/ \E r \in Requests, sid \in 1..MaxPfsSessions, c \in LiveCompleteCalls :
       CompleteBeginLive(r, sid, c[1], c[2])
  \/ \E r \in Requests : CompleteFinish(r)
  \/ \E user \in Leavers, password_ok \in BOOLEAN, confirm \in BOOLEAN :
       DeleteAccount(user, password_ok, confirm)
  \/ PfsTick

\* the handshake routes while users delete their accounts
SpecAccounts == InitLinked /\ [][NextAccounts]_vars

\* ------------------------------------------------------------ audit log

\* order_by(created_at.desc()): rows of equal created_at come in any order
DescendingOrders(rows) ==
  LET n == Len(rows)
  IN {s \in {[i \in 1..n |-> rows[p[i]]] : p \in Permutations(1..n)} :
        \A i \in 1..(n - 1) : s[i].created_at.t >= s[i + 1].created_at.t}

\* .limit(limit) on the configured SQLite database, where a negative LIMIT is
\* no bound
Take(rows, limit) ==
  IF limit < 0 THEN rows
  ELSE SubSeq(rows, 1, IF Len(rows) < limit THEN Len(rows) ELSE limit)

\* key_lifecycle/routes.list_key_events; kdcSessionId 0 stands for None
ListKeyEvents(kdcSessionId, limit) ==
  /\ LET rows == IF kdcSessionId # 0
                 THEN SelectSeq(key_events, LAMBDA e : e.kdc_session_id = kdcSessionId)
                 ELSE key_events
     IN \E s \in DescendingOrders(rows) :
          events_reply' = [on |-> TRUE, events |-> Take(s, limit)]
  /\ UNCHANGED <<now, rate_log, contact_reply, online_users, sid_to_user, removed>>
  /\ UNCHANGED ledgerVars /\ UNCHANGED kdcVars /\ UNCHANGED pfsVars

\* the limits asked for: one row, the default, and a negative number, which
\* Query(le=500) lets through
QueryLimits == {1, 100, -1}

\* requests by a participant and by an outsider
Actors == {"u1", "u3"}

\* room left in the audit log of this specification
AuditRoom == Len(key_events) < MaxEvents - 1

NextAudit ==
  \/ AuditRoom /\ KdcCalls < MaxKdcCalls /\ IssueSession("u1", "u2")
  \/ \E id \in 1..MaxSessions, a \in Actors : AuditRoom /\ RotateSession(id, a)
  \/ \E id \in 1..MaxSessions, a \in Actors, st \in TerminalStates :
       AuditRoom /\ RevokeSession(id, a, st)
  \/ AuditRoom /\ PfsCalls < MaxPfsCalls /\ StartPfs("u1", "u2")
  \/ \E sid \in 1..MaxPfsSessions, a \in Actors : CompleteBegin("r1", sid, a, "ec-pem")
  \/ AuditRoom /\ CompleteFinish("r1")
  \/ \E id \in {0, 1}, limit \in QueryLimits : ListKeyEvents(id, limit)

\* the KDC, lifecycle, handshake and audit routes together, on one audit log
SpecAudit == InitLinked /\ [][NextAudit]_vars

\* ---------------------------------------------------------- KDC claims

SessionIds == 1..Len(kdc_sessions)

\* the fields of a session row that a rotation writes, with its status
RotatedFields(session) ==
  <<session.status, session.lifecycle_state, session.key_fingerprint,
    session.encrypted_key_for_sender, session.encrypted_key_for_receiver>>

\* C3: once a KDC session's status is revoked or destroyed, a rotate request on
\* it is rejected and leaves its status, lifecycle_state, key_fingerprint and
\* both envelopes as they were.
C3_TerminalRejectsRotate ==
  [][\A id \in SessionIds, actor \in Users :
       (kdc_sessions[id].status \in TerminalStates /\ RotateSession(id, actor))
         => /\ kdc_reply'.code # 200
            /\ RotatedFields(kdc_sessions'[id]) = RotatedFields(kdc_sessions[id])]_vars

\* C6: a rotate and a revoke or destroy of one session leave a row that one of
\* the two orders explains: never status revoked or destroyed with
\* lifecycle_state rotated, never status active with destroyed_at set.
C6_NoMixedSession ==
  \A id \in SessionIds :
    /\ ~(kdc_sessions[id].status \in TerminalStates
         /\ kdc_sessions[id].lifecycle_state = "rotated")
    /\ ~(kdc_sessions[id].status = "active" /\ kdc_sessions[id].destroyed_at # None)

\* a value from which the key is read without any secret: the bytes themselves
\* or an encoding of them
IsRawKey(v) == v.kind \in {"bytes", "b64"}

\* the key that the envelopes of a session wrap
WrappedKey(session) == session.encrypted_key_for_sender.plaintext

SessionLinks(session) ==
  LinksBetween(contact_links, session.sender_id, session.receiver_id)

\* C7 as stated: after issue and rotate operations no persisted record holds
\* the raw session key, the contact link included.
C7_NoRawKeyPersisted ==
  \A id \in SessionIds : \A l \in contact_links :
    l.session_key_base64 # WrappedKey(kdc_sessions[id])

\* C7, amended: the session row and the audit events hold the key only as the
\* two envelopes and the fingerprint, while the contact link of the pair holds
\* the key of the last issue or rotation itself, base64-encoded.
C7_RawKeyOnlyOnLink ==
  /\ \A id \in SessionIds :
       /\ kdc_sessions[id].encrypted_key_for_sender.kind \in {"rsa_oaep", "aes_gcm"}
       /\ kdc_sessions[id].encrypted_key_for_receiver.kind \in {"rsa_oaep", "aes_gcm"}
       /\ kdc_sessions[id].key_fingerprint.kind = "sha256"
  /\ \A k \in 1..Len(key_events) :
       \A f \in DOMAIN key_events[k].payload :
         f = "fingerprint" => key_events[k].payload[f].kind = "sha256"
  /\ (kdc_reply.on /\ kdc_reply.code = 200 /\ kdc_reply.op \in {"issue", "rotate"})
       => \A l \in SessionLinks(kdc_sessions[kdc_reply.session]) :
            /\ IsRawKey(l.session_key_base64)
            /\ l.session_key_base64 = WrappedKey(kdc_sessions[kdc_reply.session])

C7_Witness ==
  /\ kdc_reply.on /\ kdc_reply.code = 200 /\ kdc_reply.op = "rotate"
  /\ \E l \in SessionLinks(kdc_sessions[kdc_reply.session]) :
       l.session_key_base64 = WrappedKey(kdc_sessions[kdc_reply.session])
  /\ kdc_sessions[kdc_reply.session].encrypted_key_for_sender.kind = "rsa_oaep"
  /\ kdc_sessions[kdc_reply.session].encrypted_key_for_receiver.kind = "aes_gcm"

\* ---------------------------------------------------------- PFS claims

\* a /pfs/complete request that has reached the service and has its response
Served(r) == completer[r].pc = "done" /\ completer[r].code \notin {404, 403}

\* two served requests for one handshake, each in flight while the other was
Concurrent(r, q) ==
  /\ r # q /\ Served(r) /\ Served(q)
  /\ completer[r].sid = completer[q].sid
  /\ completer[r].seen[q] = "popped" \/ completer[q].seen[r] = "popped"

\* the private key was in the pending store when the first of the two looked
KeyWasPending(r, q) == completer[r].entry # None \/ completer[q].entry # None

\* the response that carries the key derived for this request
ReturnsDerivedKey(r) ==
  /\ completer[r].code = 200
  /\ completer[r].key # None
  /\ completer[r].key.data.info = "cipherlink-pfs"
  /\ completer[r].key.data.hkdf.private = EcPrivate(completer[r].sid)

Gone(r) == completer[r].code = 410 /\ completer[r].key = None

\* C1 as stated: of two concurrent complete calls for a handshake whose private
\* key is pending, exactly one obtains the key and returns derived key material
\* and the other fails with 410.
C1_OneReturnsKeyOtherGone ==
  \A r, q \in Requests :
    (Concurrent(r, q) /\ KeyWasPending(r, q))
      => \E w \in {r, q} : \E l \in {r, q} \ {w} :
           /\ completer[w].entry # None /\ ReturnsDerivedKey(w)
           /\ completer[l].entry = None /\ Gone(l)

\* C1, amended: exactly one of the two obtains the private key and the other
\* fails with 410; the one that obtained it returns derived key material when
\* its client key is an elliptic-curve public key and the pair's contact link
\* exists, and otherwise fails (400, or the parser's error) with no key returned.
C1_OneObtainsKeyOtherGone ==
  \A r, q \in Requests :
    (Concurrent(r, q) /\ KeyWasPending(r, q))
      => \E w \in {r, q} : \E l \in {r, q} \ {w} :
           /\ completer[w].entry # None
           /\ completer[l].entry = None /\ Gone(l)
           /\ IF /\ completer[w].pem = "ec-pem"
                 /\ LinksBetween(contact_links,
                                 pfs_sessions[completer[w].sid].initiator_user_id,
                                 pfs_sessions[completer[w].sid].peer_user_id) # {}
              THEN ReturnsDerivedKey(w)
              ELSE completer[w].code \in {400, 500} /\ completer[w].key = None

C1_Witness ==
  \E r, q \in Requests :
    /\ Concurrent(r, q) /\ KeyWasPending(r, q)
    /\ ReturnsDerivedKey(r) /\ Gone(q)

\* C4: a complete call made more than ttl_seconds after the handshake's start
\* fails with 410 and returns no derived key material.
C4_GoneAfterTtl ==
  \A r \in Requests :
    (Served(r) /\ completer[r].at > pfs_sessions[completer[r].sid].created_at.t + ttl_seconds)
      => Gone(r)

\* C5: of two complete calls for one handshake made one after the other, both
\* with a valid peer public key and both within the handshake's TTL, the first
\* returns the derived key and the second fails with 410.
C5_SecondCompleteGone ==
  \A r, q \in Requests :
    ( /\ r # q /\ Served(r) /\ Served(q)
      /\ completer[r].sid = completer[q].sid
      /\ completer[q].seen[r] = "done"
      /\ completer[r].pem = "ec-pem" /\ completer[q].pem = "ec-pem"
      /\ completer[q].at <= pfs_sessions[completer[q].sid].created_at.t + ttl_seconds )
      => ReturnsDerivedKey(r) /\ Gone(q)

C5_Witness ==
  \E r, q \in Requests :
    /\ r # q /\ Served(r) /\ Served(q)
    /\ completer[r].sid = completer[q].sid
    /\ completer[q].seen[r] = "done"
    /\ completer[q].pem = "ec-pem"
    /\ ReturnsDerivedKey(r) /\ Gone(q)
    /\ Len(pfs_sessions) = 2

\* ------------------------------------------------- rate limiter claims

\* the calls made for one key, in order
KeyCalls(key) == SelectSeq(rate_log, LAMBDA e : e.key = key)

\* the calls among the first n of a sequence that were admitted no more than
\* per_seconds before time t
AdmittedWithin(calls, n, t) ==
  {j \in 1..n : calls[j].ok /\ t - calls[j].t <= per_seconds}

\* the admitted calls of a sequence that lie in the window that ends at its last
\* call, as their times
WindowTimes(calls) ==
  LET kept == SelectSeq(calls, LAMBDA e : e.ok /\ calls[Len(calls)].t - e.t <= per_seconds)
  IN [j \in 1..Len(kept) |-> kept[j].t]

\* C11: a check call returns true exactly when fewer than max_requests admitted
\* calls for its key lie in the trailing per_seconds window, and each call that
\* returns true is one more recorded event of that window.
C11_TrueIffWindowHasRoom ==
  \A key \in RateKeys :
    LET calls == KeyCalls(key)
    IN /\ \A i \in 1..Len(calls) :
            calls[i].ok <=>
              Cardinality(AdmittedWithin(calls, i - 1, calls[i].t)) < max_requests
       /\ calls # <<>> => /\ key \in DOMAIN kdc_buckets
                          /\ kdc_buckets[key] = WindowTimes(calls)

C11_Witness ==
  \E key \in RateKeys :
    LET calls == KeyCalls(key)
    IN \E i \in 1..Len(calls) :
         /\ ~calls[i].ok
         /\ calls[i].t - calls[1].t = per_seconds
         /\ Len(kdc_buckets[key]) = max_requests

\* C12: the first max_requests calls for a key, made within per_seconds, all
\* return true; every further call while those are all in the window returns
\* false; the first call made after the window has passed the last of them
\* returns true.
C12_BurstThenDeniedThenAdmitted ==
  \A key \in RateKeys :
    LET calls == KeyCalls(key)
    IN (Len(calls) >= max_requests
          /\ calls[max_requests].t - calls[1].t <= per_seconds)
       => /\ \A i \in 1..max_requests : calls[i].ok
          /\ \A m \in (max_requests + 1)..Len(calls) :
               /\ calls[m].t - calls[1].t <= per_seconds => ~calls[m].ok
               /\ ( /\ calls[m].t - calls[max_requests].t > per_seconds
                    /\ \A k \in (max_requests + 1)..(m - 1) :
                         calls[k].t - calls[1].t <= per_seconds )
                  => calls[m].ok

C12_Witness ==
  \E key \in RateKeys :
    LET calls == KeyCalls(key)
    IN /\ Len(calls) = max_requests + 2
       /\ \A i \in 1..max_requests : calls[i].ok
       /\ calls[max_requests].t > calls[1].t
       /\ ~calls[max_requests + 1].ok
       /\ calls[max_requests + 2].ok

\* --------------------------------------------------- lifecycle claims

\* the audit events that announce a key of a session: its issue and its rotations
KeyAnnouncements(id) ==
  SelectSeq(key_events, LAMBDA e : e.kdc_session_id = id
                                   /\ e.event_type \in {"generated", "rotated"})

RotatedEvents == SelectSeq(key_events, LAMBDA e : e.event_type = "rotated")

\* C13: each rotation records exactly one 'rotated' event for its session, the
\* fingerprint in its payload is the session's fingerprint after that rotation,
\* and the fingerprints a session has had are pairwise distinct.
C13_OneRotatedEventPerRotation ==
  /\ Len(RotatedEvents) = (next_key - 1) - Len(kdc_sessions)
  /\ \A id \in SessionIds :
       LET anns == KeyAnnouncements(id)
       IN /\ anns # <<>>
          /\ anns[Len(anns)].payload.fingerprint = kdc_sessions[id].key_fingerprint
          /\ \A i, j \in 1..Len(anns) :
               i # j => anns[i].payload.fingerprint # anns[j].payload.fingerprint

C13_Witness ==
  \E id \in SessionIds :
    /\ Len(SelectSeq(KeyAnnouncements(id), LAMBDA e : e.event_type = "rotated")) = 2
    /\ kdc_reply.op = "rotate" /\ kdc_reply.code = 200

\* C14: a rotation sets expires_at to the rotation time plus 30 minutes, which
\* is strictly later than the value it replaces.
C14_RotationExtendsExpiry ==
  [][\A id \in SessionIds, actor \in Users :
       (RotateSession(id, actor) /\ kdc_reply'.code = 200)
         => /\ kdc_sessions'[id].expires_at.t = now + 60 * 30
            /\ kdc_sessions'[id].expires_at.t > kdc_sessions[id].expires_at.t]_vars

C14_Witness ==
  \E id \in SessionIds :
    /\ kdc_sessions[id].lifecycle_state = "rotated"
    /\ kdc_sessions[id].generated_at.t = 0
    /\ kdc_sessions[id].expires_at.t = 2 + 60 * 30
    /\ Len(RotatedEvents) = 2

\* C15: issue_session answers 429 when the sender's bucket is full and 400 when
\* sender and receiver are the same user or have no contact link; such a call
\* creates no session, records no event and leaves the link's key alone.  So
\* every session has two distinct participants who have a contact link.
C15_IssueRejectsCleanly ==
  /\ [][\A c \in IssueCalls :
          LET sender == c[1]
              receiver == c[2]
              full == /\ sender \in DOMAIN kdc_buckets
                      /\ Len(Prune(kdc_buckets[sender], now)) >= max_requests
              unlinked == \A l \in contact_links :
                            {l.user_a_id, l.user_b_id} # {sender, receiver}
          IN (IssueSession(sender, receiver) /\ receiver \in KnownUsers
                /\ (full \/ sender = receiver \/ unlinked))
               => /\ kdc_reply'.code = IF full THEN 429 ELSE 400
                  /\ UNCHANGED <<kdc_sessions, key_events, contact_links>>]_vars
  /\ [](\A id \in SessionIds :
          /\ kdc_sessions[id].sender_id # kdc_sessions[id].receiver_id
          /\ \E l \in contact_links :
               {l.user_a_id, l.user_b_id} =
                 {kdc_sessions[id].sender_id, kdc_sessions[id].receiver_id})

C15_Witness ==
  /\ kdc_reply.on /\ kdc_reply.op = "issue" /\ kdc_reply.code = 429
  /\ Len(kdc_sessions) = 2
  /\ now > per_seconds

\* ----------------------------------------------------- audit claims

\* the users that are neither party of a KDC session, of a PFS handshake
KdcOutsiders(id) == Users \ {kdc_sessions[id].sender_id, kdc_sessions[id].receiver_id}
PfsOutsiders(sid) ==
  Users \ {pfs_sessions[sid].initiator_user_id, pfs_sessions[sid].peer_user_id}

\* what a request by an outsider must leave alone
Guarded == <<kdc_sessions, pfs_sessions, pending, key_events, contact_links>>

\* C16: a rotate, revoke or destroy of a KDC session and a complete of a PFS
\* handshake asked for by a user who is not one of its two participants is
\* answered 403 and changes neither session, nor the pending store, nor the
\* audit log.
C16_OutsiderRejected ==
  [][/\ \A id \in SessionIds : \A a \in KdcOutsiders(id) :
          /\ RotateSession(id, a) => kdc_reply'.code = 403 /\ UNCHANGED Guarded
          /\ \A st \in TerminalStates :
               RevokeSession(id, a, st) => kdc_reply'.code = 403 /\ UNCHANGED Guarded
     /\ \A sid \in 1..Len(pfs_sessions) : \A a \in PfsOutsiders(sid) :
          \A r \in Requests, pem \in ClientPems :
            CompleteBegin(r, sid, a, pem)
              => /\ completer'[r].pc = "done" /\ completer'[r].code = 403
                 /\ UNCHANGED Guarded]_vars

C16_Witness ==
  /\ kdc_reply.on /\ kdc_reply.code = 403 /\ kdc_reply.op = "destroyed"
  /\ completer["r1"].pc = "done" /\ completer["r1"].code = 403
  /\ 1 \in DOMAIN pending

\* C19: a successful issue, rotate, revoke or destroy, start and complete each
\* append exactly one audit event, and no KDC, handshake or audit-query step
\* changes or removes an event recorded before.
C19_AuditLogAppendOnly ==
  [][/\ Len(key_events') \in {Len(key_events), Len(key_events) + 1}
     /\ SubSeq(key_events', 1, Len(key_events)) = key_events
     /\ ( \/ \E c \in IssueCalls : IssueSession(c[1], c[2]) /\ kdc_reply'.code = 200
          \/ \E id \in SessionIds, a \in Users :
               \/ RotateSession(id, a) /\ kdc_reply'.code = 200
               \/ \E st \in TerminalStates :
                    RevokeSession(id, a, st) /\ kdc_reply'.code = 200
          \/ \E c \in StartCalls : StartPfs(c[1], c[2]) /\ pfs_reply'.code = 200
          \/ \E r \in Requests : CompleteFinish(r) /\ completer'[r].code = 200 )
        => Len(key_events') = Len(key_events) + 1
     /\ (\E id \in 0..MaxSessions, limit \in QueryLimits : ListKeyEvents(id, limit))
        => key_events' = key_events]_vars

C19_Witness ==
  /\ Len(key_events) = 2
  /\ key_events[1].event_type = "start" /\ key_events[2].event_type = "established"
  /\ events_reply.on /\ Len(events_reply.events) = 2

\* ---------------------------------------------------- ledger claims

\* a copy of a chain of three blocks whose block at height 1 has had its
\* previous_hash replaced
LinkOfSecondChanged ==
  /\ copy.on /\ Len(blocks) = 3
  /\ copy.field = "previous_hash" /\ copy.height = 1

\* C17 as stated: a chain of three sequentially mined blocks validates as
\* (True, []), and once the previous_hash of its block at height 1 is replaced
\* the only issue is a broken previous hash at height 1.
C17_OnlyBrokenLink ==
  /\ Len(blocks) = 3 => validate_chain(blocks) = [valid |-> TRUE, issues |-> <<>>]
  /\ LinkOfSecondChanged
       => ~copy.valid /\ copy.issues = <<Issue("Broken previous hash", 1)>>

\* C17, amended: the issues are two, both at height 1: a hash mismatch, since
\* the header that is hashed holds previous_hash, and then the broken
\* previous hash.
C17_MismatchAndBrokenLink ==
  /\ Len(blocks) = 3 => validate_chain(blocks) = [valid |-> TRUE, issues |-> <<>>]
  /\ LinkOfSecondChanged
       => /\ ~copy.valid
          /\ copy.issues = <<Issue("Hash mismatch", 1), Issue("Broken previous hash", 1)>>

C17_Witness ==
  /\ LinkOfSecondChanged
  /\ blocks[1].message_hash = "h0" /\ blocks[2].message_hash = "h1"
  /\ blocks[3].message_hash = "h2"

\* C18: the first block mined on an empty ledger has height 0 and no
\* previous_hash, and validate_chain reports no broken previous hash for a
\* chain that holds that block alone, whatever its stored fields.
C18_GenesisHasNoLink ==
  /\ blocks # <<>> => blocks[1].height = 0 /\ blocks[1].previous_hash = None
  /\ Len(blocks) = 1 =>
       \A k \in 1..Len(validate_chain(blocks).issues) :
         validate_chain(blocks).issues[k].kind # "Broken previous hash"
  /\ (copy.on /\ Len(copy.chain) = 1) =>
       \A k \in 1..Len(copy.issues) : copy.issues[k].kind # "Broken previous hash"

C18_Witness ==
  /\ copy.on /\ Len(copy.chain) = 1
  /\ copy.field = "previous_hash" /\ copy.chain[1].previous_hash = Str("0000")
  /\ copy.chain[1].height = 0

\* ----------------------------------------------- handshake key claims

\* the /pfs/complete requests that were answered with a derived key
Completed == {r \in Requests : completer[r].pc = "done" /\ completer[r].code = 200}

\* the links of the pair of a handshake session
PfsLinks(session) ==
  LinksBetween(contact_links, session.initiator_user_id, session.peer_user_id)

\* the handshake's own records hold the derived key of request r only as its
\* fingerprint: the session row, the pending store and the audit events
OnlyFingerprintInHandshake(r) ==
  LET c == completer[r]
      session == pfs_sessions[c.sid]
  IN /\ session.shared_key_fingerprint = [kind |-> "sha256", pre |-> c.key.data]
     /\ \A f \in {"server_public_key_pem", "shared_key_fingerprint",
                   "created_at", "expires_at"} :
          session[f] \notin {c.key, c.key.data}
     /\ c.sid \notin DOMAIN pending
     /\ \A k \in 1..Len(key_events) :
          key_events[k].source = "PFS"
            => DOMAIN key_events[k].payload = {"peerId", "pfsSessionId"}

\* C20 as stated: after a successful complete the fingerprint on the PFS
\* session is the only persisted trace of the derived key; no other record
\* written by the handshake service, the contact link included, holds it.
C20_OnlyFingerprintPersisted ==
  \A r \in Completed :
    /\ OnlyFingerprintInHandshake(r)
    /\ \A l \in contact_links : l.session_key_base64 # completer[r].key

\* C20, amended: complete hands the derived key to the caller; the PFS
\* session holds only its fingerprint and the pending store and the audit
\* events hold nothing of it, but the service also writes the key,
\* base64-encoded, to the contact link of the pair, which holds the key of a
\* completed handshake of the pair from then on.
C20_FingerprintAndLinkKey ==
  \A r \in Completed :
    /\ ReturnsDerivedKey(r)
    /\ OnlyFingerprintInHandshake(r)
    /\ \A l \in PfsLinks(pfs_sessions[completer[r].sid]) :
         /\ IsRawKey(l.session_key_base64)
         /\ \E q \in Completed : l.session_key_base64 = completer[q].key

C20_Witness ==
  \E r \in Completed :
    /\ pfs_sessions[completer[r].sid].status = "active"
    /\ \E l \in PfsLinks(pfs_sessions[completer[r].sid]) :
         l.session_key_base64 = completer[r].key

\* ------------------------------------------------------ contact claims

\* the links of the unordered pair {a, b}, whichever way round they are stored
PairLinks(links, a, b) ==
  {l \in links : {l.user_a_id, l.user_b_id} = {a, b}}

\* C21: add_contact is idempotent for a pair of users: a request for a pair
\* that has a link, from either member, returns the id of that link and adds
\* none, and at no time are there two links of one unordered pair.
C21_AddContactIdempotent ==
  /\ [](\A a, b \in Users : Cardinality(PairLinks(contact_links, a, b)) <= 1)
  /\ [](contact_reply.on /\ contact_reply.code = 200
          => \E l \in PairLinks(contact_links, contact_reply.caller, contact_reply.peer) :
               l.id = contact_reply.linkId)
  /\ [][\A a, b \in Users :
          (a # b /\ PairLinks(contact_links, a, b) # {} /\ AddContact(a, b))
            => /\ contact_links' = contact_links
               /\ contact_reply'.code = 200
               /\ \A l \in PairLinks(contact_links, a, b) :
                    contact_reply'.linkId = l.id]_vars

C21_Witness ==
  /\ contact_reply.on /\ contact_reply.code = 200
  /\ contact_reply.caller = "u2" /\ contact_reply.peer = "u1"
  /\ \E l \in contact_links :
       /\ l.user_a_id = "u1" /\ l.user_b_id = "u2" /\ l.id = contact_reply.linkId
       /\ l.id = 1
  /\ Cardinality(contact_links) = 2

\* ----------------------------------------------------- lifecycle claims

\* C22: revoked and destroyed are terminal: a revoke or destroy request for a
\* session whose lifecycle_state is revoked or destroyed leaves its status and
\* lifecycle_state as they are.
C22_TerminalStaysTerminal ==
  [][\A id \in SessionIds : \A a \in Users : \A st \in TerminalStates :
       (kdc_sessions[id].lifecycle_state \in TerminalStates /\ RevokeSession(id, a, st))
         => /\ kdc_sessions'[id].status = kdc_sessions[id].status
            /\ kdc_sessions'[id].lifecycle_state = kdc_sessions[id].lifecycle_state]_vars

\* ----------------------------------------------- handshake state claims

\* a /pfs/complete request that arrived after the TTL of its handshake and was
\* told that the handshake is gone, with no other request for it in flight
GoneAfterTtl(r) ==
  /\ Served(r) /\ Gone(r)
  /\ completer[r].at > pfs_sessions[completer[r].sid].created_at.t + ttl_seconds
  /\ \A q \in Requests :
       completer[q].pc = "popped" => completer[q].sid # completer[r].sid

\* C23: a PFS session that was not completed before its TTL elapsed is in
\* status expired, not pending, once a complete call that came after the TTL
\* has been answered with Gone.
C23_ExpiredNotPending ==
  \A r \in Requests :
    (GoneAfterTtl(r) /\ pfs_sessions[completer[r].sid].status # "active")
      => pfs_sessions[completer[r].sid].status = "expired"

\* the fields of a PFS session that a completion writes
CompletedFields(session) ==
  <<session.status, session.shared_key_fingerprint, session.expires_at>>

PfsSessionIds == 1..Len(pfs_sessions)

\* C24: once a PFS session is active, no start or complete call changes its
\* status, shared_key_fingerprint or expires_at, and a complete call that
\* reaches the service for it afterwards finds no private key and fails with
\* Gone.
C24_ActiveIsFinal ==
  /\ [][\A sid \in PfsSessionIds :
          pfs_sessions[sid].status = "active"
            => CompletedFields(pfs_sessions'[sid]) = CompletedFields(pfs_sessions[sid])]_vars
  /\ [][\A r \in Requests : \A sid \in PfsSessionIds : \A c \in CompleteCalls :
          (/\ pfs_sessions[sid].status = "active"
           /\ c[1] \in {pfs_sessions[sid].initiator_user_id, pfs_sessions[sid].peer_user_id}
           /\ CompleteBegin(r, sid, c[1], c[2]))
            => completer'[r].pc = "popped" /\ completer'[r].entry = None]_vars
  /\ [](\A r \in Requests :
          (Served(r) /\ completer[r].entry = None) => Gone(r))

C24_Witness ==
  \E r, q \in Requests :
    /\ Served(q) /\ completer[q].code = 200
    /\ Served(r) /\ Gone(r) /\ completer[r].sid = completer[q].sid
    /\ completer[r].seen[q] = "done"
    /\ completer[r].at > completer[q].at
    /\ pfs_sessions[completer[r].sid].status = "active"

\* ------------------------------------------------- chain shape claims

\* C25: after any sequence of mine_block calls, one at a time, the blocks in
\* height order have the heights 0, 1, ..., N-1, the block at height 0 has no
\* previous_hash, every later block's previous_hash is the hash of the block
\* one height below, and a block once mined is never changed or removed.
C25_ChainLinkedAppendOnly ==
  /\ [](LET sorted == OrderByHeight(blocks)
        IN /\ \A i \in 1..Len(sorted) : sorted[i].height = i - 1
           /\ sorted # <<>> => sorted[1].previous_hash = None
           /\ \A i \in 2..Len(sorted) : sorted[i].previous_hash = sorted[i - 1].hash)
  /\ [][/\ Len(blocks') >= Len(blocks)
        /\ \A i \in 1..Len(blocks) : blocks'[i] = blocks[i]]_vars

C25_Witness ==
  /\ Len(blocks) = 3
  /\ blocks[3].height = 2 /\ blocks[3].previous_hash = blocks[2].hash
  /\ blocks[2].previous_hash = blocks[1].hash
  /\ blocks[2].message_hash = blocks[3].message_hash

\* --------------------------------------------- corrupted chain claims

\* the violations present on the i-th block of a chain in height order
HashMismatch(sorted, i) ==
  Sha256Hex(header_string(
    BlockData(sorted[i].height, sorted[i].previous_hash, sorted[i].nonce,
              sorted[i].difficulty, sorted[i].message_hash,
              LoadPayload(sorted[i].payload), AttachUtc(sorted[i].created_at))))
    # sorted[i].hash

BrokenLink(sorted, i) == i > 1 /\ sorted[i].previous_hash # sorted[i - 1].hash

DifficultyViolation(sorted, i) ==
  LeadingZeros(sorted[i].hash) < sorted[i].difficulty

Corrupted(sorted, i) ==
  HashMismatch(sorted, i) \/ BrokenLink(sorted, i) \/ DifficultyViolation(sorted, i)

Reported(issues) == {issues[k] : k \in 1..Len(issues)}

\* C26: validate_chain does not stop at the first problem: whatever blocks of
\* a chain are corrupted, every violation present on a block (hash mismatch,
\* broken linkage, difficulty violation) is in the issue list with the
\* block's height, so every corrupted block has at least one issue.
C26_EveryViolationReported ==
  copy.on =>
    LET sorted == OrderByHeight(copy.chain)
    IN \A i \in 1..Len(sorted) :
         /\ HashMismatch(sorted, i)
              => Issue("Hash mismatch", sorted[i].height) \in Reported(copy.issues)
         /\ BrokenLink(sorted, i)
              => Issue("Broken previous hash", sorted[i].height) \in Reported(copy.issues)
         /\ DifficultyViolation(sorted, i)
              => Issue("Difficulty violation", sorted[i].height) \in Reported(copy.issues)
         /\ Corrupted(sorted, i) => sorted[i].height \in IssueHeights(copy.issues)

C26_Witness ==
  /\ copy.on /\ Len(copy.chain) = 3
  /\ LET sorted == OrderByHeight(copy.chain)
     IN /\ HashMismatch(sorted, 1) /\ DifficultyViolation(sorted, 1)
        /\ BrokenLink(sorted, 2) /\ ~HashMismatch(sorted, 2)
        /\ HashMismatch(sorted, 3) /\ BrokenLink(sorted, 3)
  /\ Len(copy.issues) = 5

\* ------------------------------------------------- validation claims

\* the response of GET /blockchain/validate
ValidateReplied == reply.on /\ reply.block = None

\* C27: validate_chain never changes the persisted chain, and on an empty
\* ledger it returns (True, []).
C27_ValidateReadsOnly ==
  /\ [][ValidateRoute => blocks' = blocks]_vars
  /\ [][(ValidateRoute /\ blocks = <<>>) => reply'.valid /\ reply'.details = <<>>]_vars
  /\ []((ValidateReplied /\ blocks = <<>>) => reply.valid /\ reply.details = <<>>)

C27_Witness == ValidateReplied /\ blocks = <<>> /\ reply.valid /\ miner["m1"].pc = "mined"

\* ------------------------------------------------------- issue claims

\* the audit events of one type recorded for a KDC session
EventsOf(id, event_type) ==
  {k \in 1..Len(key_events) :
     key_events[k].kdc_session_id = id /\ key_events[k].event_type = event_type}

\* C28: a successful issue_session leaves the new session with lifecycle_state
\* distributed, status active and distributed_at set, and has recorded one
\* 'generated' event that carries the session's fingerprint; no KDC session
\* is ever in lifecycle_state generated.
C28_IssuedIsDistributed ==
  /\ \A id \in SessionIds :
       /\ kdc_sessions[id].lifecycle_state # "generated"
       /\ Cardinality(EventsOf(id, "generated")) = 1
  /\ (kdc_reply.on /\ kdc_reply.op = "issue" /\ kdc_reply.code = 200) =>
       LET session == kdc_sessions[kdc_reply.session]
       IN /\ session.lifecycle_state = "distributed"
          /\ session.status = "active"
          /\ session.distributed_at # None
          /\ \A k \in EventsOf(kdc_reply.session, "generated") :
               /\ key_events[k].source = "KDC"
               /\ key_events[k].payload.fingerprint = session.key_fingerprint

C28_Witness ==
  /\ kdc_reply.on /\ kdc_reply.op = "issue" /\ kdc_reply.code = 200
  /\ kdc_reply.session = 2 /\ now > 0
  /\ kdc_sessions[2].lifecycle_state = "distributed"
  /\ kdc_sessions[1].lifecycle_state = "rotated"

\* ------------------------------------------------------ revoke claims

\* a revoke or destroy request that the service has carried out
Revoked(id, a, st) ==
  /\ RevokeSession(id, a, st)
  /\ kdc_reply'.code = 200

\* C29: revoke_session sets status and lifecycle_state both to the given
\* terminal value and records one audit event of that type; destroyed_at is
\* set by the first revoke or destroy of a session, never changes afterwards,
\* and is set only on sessions whose status is revoked or destroyed.
C29_RevokeStampsOnce ==
  /\ [][\A id \in SessionIds : \A a \in Users : \A st \in TerminalStates :
          Revoked(id, a, st)
            => /\ kdc_sessions'[id].status = st
               /\ kdc_sessions'[id].lifecycle_state = st
               /\ kdc_sessions'[id].destroyed_at # None
               /\ Len(key_events') = Len(key_events) + 1
               /\ key_events'[Len(key_events')].event_type = st
               /\ key_events'[Len(key_events')].kdc_session_id = id]_vars
  /\ [][\A id \in SessionIds :
          kdc_sessions[id].destroyed_at # None
            => kdc_sessions'[id].destroyed_at = kdc_sessions[id].destroyed_at]_vars
  /\ [](\A id \in SessionIds :
          kdc_sessions[id].destroyed_at # None
            => kdc_sessions[id].status \in TerminalStates)

\* ------------------------------------------------------- sweep claims

\* a /pfs/start call that has stored the private key of a new handshake
Started(initiator, receiverId) ==
  /\ StartPfs(initiator, receiverId)
  /\ pfs_reply'.code = 200

\* C30: right after a start call has stored its private key, the pending
\* store holds no entry whose expiry time is in the past.
C30_StartSweepsExpired ==
  [][\A c \in StartCalls :
       Started(c[1], c[2])
         => /\ pfs_reply'.session \in DOMAIN pending'
            /\ \A sid \in DOMAIN pending' : ~(now' > pending'[sid].expires)]_vars

C30_Witness ==
  /\ pfs_reply.on /\ pfs_reply.code = 200 /\ pfs_reply.session = 2
  /\ DOMAIN pending = {2}
  /\ pfs_sessions[1].status = "pending"
  /\ \A r \in Requests : completer[r].pc = "idle"
  /\ now > pfs_sessions[1].created_at.t + ttl_seconds

\* ------------------------------------------------- audit query claims

\* C31: the key-events query returns the events newest first, never more
\* than limit of them, and, when a session id is given, only events of that
\* session.
C31_NewestFirstWithinLimit ==
  [][\A id \in {0, 1} : \A limit \in QueryLimits :
       ListKeyEvents(id, limit)
         => LET events == events_reply'.events
            IN /\ \A i \in 1..(Len(events) - 1) :
                    events[i].created_at.t >= events[i + 1].created_at.t
               /\ Len(events) <= limit
               /\ id # 0 => \A i \in 1..Len(events) : events[i].kdc_session_id = id]_vars

\* ------------------------------------------------------ socket manager

\* the connections that may be open at once
Sids == 1..MaxSids

\* a dict without one of its keys
Without(d, key) == [k \in DOMAIN d \ {key} |-> d[k]]

\* a dict with one key set
With(d, key, value) == [k \in DOMAIN d \cup {key} |-> IF k = key THEN value ELSE d[k]]

\* SocketManager.unregister: online_users.pop(user_id, None)
UnregisterOnline(online, user_id) == Without(online, user_id)

\* SocketManager.register, called by the connect handler with its new sid
Register(user, sid) ==
  /\ sid \notin DOMAIN sid_to_user
  /\ online_users' = With(online_users, user, sid)
  /\ sid_to_user' = With(sid_to_user, sid, user)
  /\ UNCHANGED <<now, rate_log, events_reply, contact_reply, removed>>
  /\ UNCHANGED ledgerVars /\ UNCHANGED kdcVars /\ UNCHANGED pfsVars

\* SocketManager.unregister, called by the disconnect handler
Unregister(sid) ==
  /\ IF sid \notin DOMAIN sid_to_user
     THEN UNCHANGED <<online_users, sid_to_user>>
     ELSE /\ sid_to_user' = Without(sid_to_user, sid)
          /\ online_users' = UnregisterOnline(online_users, sid_to_user[sid])
  /\ UNCHANGED <<now, rate_log, events_reply, contact_reply, removed>>
  /\ UNCHANGED ledgerVars /\ UNCHANGED kdcVars /\ UNCHANGED pfsVars

NextSockets ==
  \/ \E user \in Users, sid \in Sids : Register(user, sid)
  \/ \E sid \in Sids : Unregister(sid)

\* connections of the users open and close in any order
SpecSockets == Init /\ [][NextSockets]_vars

\* --------------------------------------------- bucket independence claims

\* the buckets of the keys other than key are as they were, and a call for
\* any of them now would be answered as before
OthersUntouched(before, after, key, t) ==
  \A k \in (DOMAIN before \cup DOMAIN after) \ {key} :
    /\ k \in DOMAIN before /\ k \in DOMAIN after
    /\ after[k] = before[k]
    /\ check(after, k, t).ok = check(before, k, t).ok

\* C32: a check call for one key changes neither the recorded events of any
\* other key nor what a later call for it returns, and the limiter of the KDC
\* and the limiter of the handshake service share no state.
C32_BucketsIndependent ==
  [][\A key \in RateKeys :
       /\ CheckCall(key)
            => /\ OthersUntouched(kdc_buckets, kdc_buckets', key, now)
               /\ pfs_buckets' = pfs_buckets
       /\ PfsCheckCall(key)
            => /\ OthersUntouched(pfs_buckets, pfs_buckets', key, now)
               /\ kdc_buckets' = kdc_buckets]_vars

C32_Witness ==
  /\ DOMAIN kdc_buckets = RateKeys /\ DOMAIN pfs_buckets = RateKeys
  /\ Len(kdc_buckets["u1"]) = max_requests /\ Len(kdc_buckets["u2"]) = 1
  /\ Len(pfs_buckets["u1"]) = 1 /\ Len(pfs_buckets["u2"]) = 2
  /\ rate_log # <<>> /\ ~rate_log[Len(rate_log)].ok

\* ------------------------------------------------------- presence claims

\* the users some open connection belongs to
Connected == {sid_to_user[sid] : sid \in DOMAIN sid_to_user}

\* C33: after register the user is in online_users, after unregister of a
\* registered sid its user is not, and in every state a user is in
\* online_users exactly when some sid in sid_to_user maps to that user.
C33_OnlineIffSomeSid ==
  /\ [](DOMAIN online_users = Connected)
  /\ [][/\ \A user \in Users, sid \in Sids :
             Register(user, sid) => user \in DOMAIN online_users'
        /\ \A sid \in DOMAIN sid_to_user :
             Unregister(sid) => sid_to_user[sid] \notin DOMAIN online_users']_vars

\* ------------------------------------------------ pending-store claims

\* the PFS sessions still in the table
PersistedPfs == (1..Len(pfs_sessions)) \ removed.pfs_sessions

\* C37: after any sequence of start, complete and account deletion, every id
\* in the pending private-key store is the id of a persisted PFS session
\* whose status is pending.
C37_PendingIdsArePendingSessions ==
  \A sid \in DOMAIN pending :
    sid \in PersistedPfs /\ pfs_sessions[sid].status = "pending"

\* a /pfs/complete request that took the private key and then failed validation
FailedAfterPop(r) ==
  /\ completer[r].pc = "done" /\ completer[r].code = 400
  /\ completer[r].entry # None

\* a request that arrived after request r had got its response
LaterThan(r2, r) ==
  /\ r2 # r /\ completer[r2].pc = "done"
  /\ completer[r2].sid = completer[r].sid
  /\ completer[r2].seen[r] = "done"

\* C34: complete takes the private key out of the pending store before it
\* validates anything; after a complete that fails on the client key or on the
\* missing contact link, the session, while persisted, is pending without a
\* fingerprint, no 'established' event names it, and every later complete
\* that reaches the service fails with 410 Gone.
C34_FailedCompleteBurnsKey ==
  \A r \in Requests :
    /\ completer[r].pc = "popped" => completer[r].sid \notin DOMAIN pending
    /\ FailedAfterPop(r) =>
         LET sid == completer[r].sid
         IN /\ sid \notin DOMAIN pending
            /\ sid \in PersistedPfs =>
                 /\ pfs_sessions[sid].status = "pending"
                 /\ pfs_sessions[sid].shared_key_fingerprint = None
            /\ \A i \in 1..Len(key_events) :
                 key_events[i].event_type = "established"
                   => key_events[i].payload.pfsSessionId # sid
            /\ \A r2 \in Requests :
                 LaterThan(r2, r) /\ completer[r2].code \notin {403, 404}
                   => completer[r2].code = 410

C34_Witness ==
  /\ FailedAfterPop("r1") /\ LaterThan("r2", "r1")
  /\ completer["r2"].code = 410
  /\ completer["r1"].sid \in PersistedPfs
  /\ pfs_sessions[completer["r1"].sid].status = "pending"

\* ------------------------------------------------------- revoke frame

\* the columns of a KDC session that mark_revoked assigns
RevokedColumns == {"status", "lifecycle_state", "destroyed_at"}

\* C35: a revoke or destroy changes only status, lifecycle_state and
\* destroyed_at of the session; the two key envelopes, key_fingerprint,
\* expires_at and every other column of every session, and the session key
\* stored on the contact link, are as before.
C35_RevokeKeepsKeyMaterial ==
  [][(kdc_reply'.on /\ kdc_reply'.op \in TerminalStates)
       => \A a \in Users :
            RevokeSession(kdc_reply'.session, a, kdc_reply'.op)
              => /\ contact_links' = contact_links
                 /\ Len(kdc_sessions') = Len(kdc_sessions)
                 /\ \A i \in 1..Len(kdc_sessions) :
                      \A col \in DOMAIN kdc_sessions[i] \ RevokedColumns :
                        kdc_sessions'[i][col] = kdc_sessions[i][col]]_vars

C35_Witness ==
  /\ kdc_reply.on /\ kdc_reply.code = 200 /\ kdc_reply.op = "destroyed"
  /\ kdc_reply.session = 1 /\ Len(kdc_sessions) >= 1
  /\ kdc_sessions[1].status = "destroyed"
  /\ kdc_sessions[1].destroyed_at # None
  /\ kdc_sessions[1].key_fingerprint # None
  /\ kdc_sessions[1].encrypted_key_for_sender # None
  /\ \E l \in contact_links : l.session_key_base64 # None

\* C36: for every persisted PFS session, status is active exactly when
\* shared_key_fingerprint is set, and a session whose status is active has no
\* entry in the pending private-key store.
C36_ActiveIffFingerprint ==
  \A sid \in PersistedPfs :
    /\ pfs_sessions[sid].status = "active"
         <=> pfs_sessions[sid].shared_key_fingerprint # None
    /\ pfs_sessions[sid].status = "active" => sid \notin DOMAIN pending

C36_Witness ==
  /\ PersistedPfs = {1, 2}
  /\ pfs_sessions[1].status = "active"
  /\ pfs_sessions[1].shared_key_fingerprint # None
  /\ pfs_sessions[2].status = "pending"
  /\ pfs_sessions[2].shared_key_fingerprint = None
  /\ DOMAIN pending = {2}

\* ---------------------------------------------------------- fork claims

\* two well-formed blocks of height h that name the hash of one and the same
\* block as their previous_hash
Fork(bs, h) ==
  \E i, j \in 1..Len(bs) :
    /\ i < j /\ bs[i].height = h /\ bs[j].height = h
    /\ bs[i].previous_hash = bs[j].previous_hash
    /\ \E k \in 1..Len(bs) : bs[k].hash = bs[i].previous_hash
    /\ ~HashMismatch(bs, i) /\ ~HashMismatch(bs, j)
    /\ ~DifficultyViolation(bs, i) /\ ~DifficultyViolation(bs, j)

ForkHeights(bs) == {h \in 0..MaxBlocks : Fork(bs, h)}

\* C38: when the chain holds two blocks of one height that both point to the
\* same predecessor, each with a correct hash and difficulty, validate_chain
\* returns False with a broken-previous-hash issue at that height, in
\* whichever order the rows of equal height are read.
C38_ForkIsReported ==
  /\ [](\A h \in ForkHeights(blocks) :
          \A s \in HeightOrders(blocks) :
            Issue("Broken previous hash", h) \in Reported(ChainIssues(s, 1)))
  /\ [][ValidateRoute =>
          \A h \in ForkHeights(blocks) :
            /\ ~reply'.valid
            /\ Issue("Broken previous hash", h) \in Reported(reply'.details)]_vars

C38_Witness ==
  /\ ValidateReplied /\ ~reply.valid
  /\ 1 \in ForkHeights(blocks)
  /\ reply.details = validate_chain(blocks).issues
  /\ Issue("Broken previous hash", 1) \in Reported(reply.details)

\* ------------------------------------------------------ bucket claims

\* the moments at which a later call may come
LaterMoments == now..(MaxRateTime + per_seconds + 1)

\* the last elements of a sequence, as many as asked for
Suffix(seq, n) == SubSeq(seq, Len(seq) - n + 1, Len(seq))

\* C39: every bucket holds at most max_requests timestamps in non-decreasing
\* order; a check call that returns false records nothing, so whenever the
\* key asks again it is answered as if the denied call had not been made.
C39_DeniedCallsLeaveNoTrace ==
  /\ [](\A key \in DOMAIN kdc_buckets :
          /\ Len(kdc_buckets[key]) <= max_requests
          /\ \A i \in 1..(Len(kdc_buckets[key]) - 1) :
               kdc_buckets[key][i] <= kdc_buckets[key][i + 1])
  /\ [][\A key \in RateKeys :
          (/\ Len(rate_log') = Len(rate_log) + 1
           /\ ~rate_log'[Len(rate_log')].ok
           /\ CheckCall(key))
            => LET before == kdc_buckets[key]
                   after == kdc_buckets'[key]
               IN /\ Len(after) <= Len(before)
                  /\ after = Suffix(before, Len(after))
                  /\ \A t \in LaterMoments : allow(after, t) = allow(before, t)]_vars

C39_Witness ==
  \E key \in RateKeys :
    /\ rate_log # <<>>
    /\ rate_log[Len(rate_log)].key = key /\ ~rate_log[Len(rate_log)].ok
    /\ rate_log[Len(rate_log)].t = now
    /\ Len(kdc_buckets[key]) = max_requests
    /\ kdc_buckets[key][1] < kdc_buckets[key][max_requests]
    /\ kdc_buckets[key][max_requests] < now
    /\ allow(kdc_buckets[key], kdc_buckets[key][1] + per_seconds + 1).ok

\* ------------------------------------------------- rate-limit order claims

\* the bucket of a key, empty before its first call
BucketOf(buckets, key) == IF key \in DOMAIN buckets THEN buckets[key] ELSE <<>>

\* the call made at time t has been recorded in the bucket of the key
SlotConsumed(before, after, key, t) ==
  /\ key \in DOMAIN after
  /\ after[key] = Append(Prune(BucketOf(before, key), t), t)

\* the window of the key has no room at time t
WindowFull(buckets, key, t) == Len(Prune(BucketOf(buckets, key), t)) >= max_requests

\* C40: in issue_session and in PFS start the rate-limit check comes before
\* every other validation: with a full window the answer is 429 whatever else
\* is wrong with the request, and a request rejected with 400 (sender equals
\* receiver, no contact link) has consumed one slot of the caller's window.
C40_RejectedRequestsConsumeSlot ==
  /\ [][\A c \in IssueCalls :
          (c[2] \in KnownUsers /\ IssueSession(c[1], c[2]))
            => /\ WindowFull(kdc_buckets, c[1], now) => kdc_reply'.code = 429
               /\ kdc_reply'.code = 400
                    => SlotConsumed(kdc_buckets, kdc_buckets', c[1], now)]_vars
  /\ [][\A c \in SlotStartCalls :
          (c[2] \in KnownUsers /\ StartPfs(c[1], c[2]))
            => /\ WindowFull(pfs_buckets, c[1], now) => pfs_reply'.code = 429
               /\ pfs_reply'.code = 400
                    => SlotConsumed(pfs_buckets, pfs_buckets', c[1], now)]_vars

C40_Witness ==
  /\ kdc_reply.on /\ kdc_reply.op = "issue" /\ kdc_reply.code = 400
  /\ pfs_reply.on /\ pfs_reply.code = 400
  /\ kdc_sessions = <<>> /\ pfs_sessions = <<>>
  /\ Len(BucketOf(kdc_buckets, "u1")) = max_requests
  /\ Len(BucketOf(pfs_buckets, "u1")) = 2

====
